---- MODULE Spec2Model ----
(***************************************************************************)
(* Model of the AIChatLog sync pipeline: the list fetchers of the ChatGPT, *)
(* Claude and Gemini API clients, the ChatGPT content script's full and    *)
(* quick sync runs with its sync-state manager, the Gemini content         *)
(* script's sync-all, the converters of the three sources, and the backend *)
(* Store the content scripts talk to over /api/conversations/check and     *)
(* /api/import.                                                            *)
(***************************************************************************)
EXTENDS Integers, Sequences, FiniteSets, TLC

\* ------------------------------------------------------------------ bounds
\* Largest value of the clock (Date.now()) and of remote update times.
MaxTime == 3
\* Longest list handed to the list fetchers in SpecFetch.
MaxListLen == 4
\* Largest maxLimit option handed to the list fetchers in SpecFetch.
MaxLimitOpt == 3

\* Items per page of the list request (const pageSize = 100 in chatgpt-api.js),
\* scaled down so that lists of a few items span pages.
PageSize == 3
\* Default quickSyncDepth (50 in chatgpt-sync-state-manager.js), scaled down
\* so that lists of a few items reach it.
DefaultQuickSyncDepth == 2

\* --------------------------------------------------------------- constants

\* Conversation ids of the planner model and of the fetcher model.
ConvIds == {"A", "B", "C"}
ListIds == {"A", "B", "C", "D"}
\* null / undefined for an id.
Null == "null"
\* An absent update_time field (falsy in the JavaScript conditions).
NoTime == 0
\* No row stored for a (source, conversation_id) key.
NoRow == -1

VARIABLES
  \* --- remote ChatGPT service and wall clock
  remote,        \* the conversation list, most recent first: <<[id, ut]>>
  now,           \* Date.now() / new Date()
  \* --- backend Store, rows of source 'chatgpt': id -> stored updated_at
  store,
  \* --- chrome.storage.local[chatgpt_sync_state]
  syncState,
  \* --- one run of performSyncAll / performSyncQuick
  pc,            \* "idle", "list", "check", "items", "finish", "done"
  mode,          \* "none", "full", "quick"
  opts,          \* options given to fetchAllConversationsViaAPI
  offset,        \* pagination offset of the list loop
  allConversations, \* accumulator of the list loop
  conversations, \* result of fetchAllConversationsViaAPI
  toSync,        \* conversationsToSync (quick) or conversations (full)
  i,             \* loop index, 0-based
  detail,        \* detail payload of the item being processed, or NoDetail
  requested,     \* detail requests the run has issued
  synced,
  failed,
  report,        \* the syncComplete message of the run
  notification,  \* type of the last showNotification of the run
  \* --- history of the run, for stating the claims
  outcomes,      \* per processed item: [id, result]
  storeAtStart,  \* store when the run started
  runInserted,   \* rows the Store inserted in this run
  runUpdated,    \* rows the Store updated in this run
  quietFulls,    \* completed failure-free full runs since the last remote change
  lastUpsert,    \* the Store's answer to the latest import: [id, updatedAt,
                 \* result], forgotten when a run returns
  \* --- performSync of the open conversation, in flight beside a run
  single,        \* its converted conversation awaiting import, or NoSingle
  \* --- list fetchers applied to a given list (SpecFetch)
  fList,         \* the whole remote list, a sequence of ids
  fOpts,         \* [maxLimit, stopAtConversationId]
  fApplied,      \* "none", "chatgpt", "claude"
  fResult,       \* [conversations, found]
  \* --- upsert transactions inside the Store (SpecStore)
  txs,           \* per writer: [state, key, n, phase, done]
  work,          \* per key: the row as the open transaction has written it
  committed,     \* per key: the row readers see
  \* --- Gemini sync-all and performSync (SpecGemini)
  gApi,          \* pages of raw ids the MaZiqc list request answered
  gDom,          \* raw ids of the sidebar's conversation elements
  gCandidates,   \* result of fetchAllConversationsViaAPI: <<[id, stub]>>
  gI,            \* loop index of performSyncAll, 0-based
  gPc,           \* "idle", "items"
  gStore,        \* conversation_id values of the rows of source 'gemini'
  gImports,      \* per conversation: imports the Store accepted (capped)
  gMode,         \* "all", "quick": which Gemini run is in its loop
  gToSync,       \* the conversations of gCandidates the run's loop syncs
  gSyncState,    \* lastKnownConversationId of geminiSyncState, or NoGeminiId
  \* --- converters applied to a given detail payload (SpecDecode)
  dInput,        \* [source, format, entries, parents, current]
  dApplied,
  dMessages,     \* messages of the converted conversation
  \* --- the list request loop of the Gemini fetcher (SpecPaging)
  pPc,           \* "idle", "request", "returned", "threw"
  pCont,         \* continuationToken
  pSent,         \* per request: the token it carried
  pHandled,      \* per request: the response that answered it
  pAll,          \* allConversations.length
  \* --- parseBatchExecuteResponse applied to envelopes (SpecEnvelope)
  eEnvelopes,    \* two envelopes of the same content: <<segments, segments>>
  eApplied,
  eResults,      \* what each of them parsed to
  \* --- content scripts of several sources beside each other (SpecSources)
  sStorage,      \* chrome.storage.local: key -> lastKnownConversationId
  sRows,         \* rows of the conversations table: [source, conversation_id]
  sPending,      \* per source: the request its loop body awaits, or NoRequest
  sActor,        \* the source whose content script took the latest step
  sResult,       \* what that step ended with
  \* --- the conversations table and its full-text index (SpecFts)
  qRows,         \* rowid -> title and text of the row, or NoContent
  qIndex,        \* index entries of conversations_fts: [rowid, content]
  qNext,         \* rowids given out so far (AUTOINCREMENT)
  \* --- the background's trigger loops (SpecTrigger)
  bPc,           \* "idle", "loop", "done"
  bMode,         \* "allEnabled", "auto"
  bEnabled,      \* enabledServices
  bThrows,       \* services whose tab rejects the trigger's calls
  bNoTab,        \* services without a tab or content script
  bI,            \* services the loop has gone through
  bTriggered,    \* services whose content script got the sync message
  \* --- the list request loop against a list that changes (SpecListing)
  lRemote,       \* the remote list, most recently updated first
  lPc,           \* "idle", "paging", "done"
  lOffset,       \* offset of the next page request
  lAll,          \* allConversations of the loop
  \* --- sync runs of one content script (SpecRuns)
  nRuns,         \* the runs in progress: [mode, from, phase]
  \* --- calls of the sync-state manager in flight (SpecUpdates)
  uState,        \* chrome.storage.local[CHATGPT_SYNC_STATE_KEY]
  uCalls,        \* per caller: the call it is in and the state it read
  \* --- the current-path walk of the ChatGPT converter (SpecWalk)
  wMapping,      \* node -> its parent, NoParent, or NoNode for a missing node
  wNode,         \* nodeId
  wSteps,        \* iterations of the while loop so far
  wPc,           \* "idle", "walk", "done"
  \* --- the background's alarm and its manualSync handler (SpecBackground)
  aSetting,      \* syncInterval of chrome.storage.sync, in hours
  aPeriod,       \* periodInMinutes of the autoSync alarm, or NoAlarm
  aFired,        \* minutes since the alarm was created or last fired
  mPc,           \* "idle", "sent", "answered"
  mService,      \* the service detected for the active tab
  mAnswer,       \* what the tab's sync message resolved to
  mResponse      \* what the popup received

plannerVars == <<remote, now, store, syncState, pc, mode, opts, offset,
                 allConversations, conversations, toSync, i, detail, requested, synced,
                 failed, report, notification, outcomes, storeAtStart,
                 runInserted, runUpdated, quietFulls, lastUpsert>>
fetchVars == <<fList, fOpts, fApplied, fResult>>
storeVars == <<txs, work, committed>>
geminiVars == <<gApi, gDom, gCandidates, gI, gPc, gStore, gImports, gMode,
                gToSync, gSyncState>>
decodeVars == <<dInput, dApplied, dMessages>>
pagingVars == <<pPc, pCont, pSent, pHandled, pAll>>
envelopeVars == <<eEnvelopes, eApplied, eResults>>
sourceVars == <<sStorage, sRows, sPending, sActor, sResult>>
ftsVars == <<qRows, qIndex, qNext>>
triggerVars == <<bPc, bMode, bEnabled, bThrows, bNoTab, bI, bTriggered>>
listingVars == <<lRemote, lPc, lOffset, lAll>>
updateVars == <<uState, uCalls>>
walkVars == <<wMapping, wNode, wSteps, wPc>>
backgroundVars == <<aSetting, aPeriod, aFired, mPc, mService, mAnswer, mResponse>>
lateVars == <<listingVars, nRuns, updateVars, walkVars, backgroundVars>>
moreVars == <<sourceVars, ftsVars, triggerVars, lateVars>>
wireVars == <<pagingVars, envelopeVars, moreVars>>
aside == <<storeVars, geminiVars, decodeVars, wireVars>>
coreVars == <<plannerVars, fetchVars, single, storeVars, geminiVars, decodeVars,
              pagingVars, envelopeVars>>
others == <<fetchVars, single, aside>>
vars == <<plannerVars, others>>

\* ------------------------------------------------------------ generic helpers
Min(a, b) == IF a <= b THEN a ELSE b

\* Array.prototype.findIndex on the ids of a page; 0 stands for -1, else 1-based.
FindIndex(page, id) ==
  IF \E k \in 1..Len(page) : page[k].id = id
  THEN CHOOSE k \in 1..Len(page) :
         page[k].id = id /\ \A j \in 1..(k - 1) : page[j].id # id
  ELSE 0

\* Array.prototype.filter, keeping order.
RECURSIVE FilterSeq(_, _)
FilterSeq(s, keep) ==
  IF s = <<>> THEN <<>>
  ELSE (IF Head(s).id \in keep THEN <<Head(s)>> ELSE <<>>) \o FilterSeq(Tail(s), keep)

IdsOf(s) == {s[k].id : k \in 1..Len(s)}

\* ------------------------------------------------- chatgpt-api.js list fetcher
\* conversations.slice(0, stopIndex): the items before the stop conversation.
SliceThroughStop(page, stopIndex) == SubSeq(page, 1, stopIndex)
SliceBeforeStop(page, stopIndex) == SubSeq(page, 1, stopIndex - 1)

\* GET /conversations?offset=..&limit=pageSize on a list.
ChatGPTPage(list, off) == SubSeq(list, off + 1, Min(off + PageSize, Len(list)))

\* One iteration of the while loop of fetchAllConversationsViaAPI after a page
\* arrived: the new accumulator, whether the loop goes on, the next offset,
\* and whether the stop conversation was found.
ChatGPTPageStep(all, page, off, total, maxLimit, stopId) ==
  LET stopIndex == FindIndex(page, stopId) IN
  IF stopId # Null /\ stopIndex # 0
  THEN [all |-> all \o SliceBeforeStop(page, stopIndex), more |-> FALSE,
        offset |-> off, found |-> TRUE]
  ELSE LET all2 == all \o page IN
       IF maxLimit # 0 /\ Len(all2) >= maxLimit
       THEN [all |-> SubSeq(all2, 1, maxLimit), more |-> FALSE,
             offset |-> off, found |-> FALSE]
       ELSE IF Len(page) < PageSize \/ (total # 0 /\ off + PageSize >= total)
            THEN [all |-> all2, more |-> FALSE, offset |-> off, found |-> FALSE]
            ELSE [all |-> all2, more |-> TRUE, offset |-> off + PageSize,
                  found |-> FALSE]

\* The whole loop on an unchanging list whose responses carry data.total.
RECURSIVE ChatGPTLoop(_, _, _, _, _)
ChatGPTLoop(list, all, off, maxLimit, stopId) ==
  LET r == ChatGPTPageStep(all, ChatGPTPage(list, off), off, Len(list),
                           maxLimit, stopId) IN
  IF r.more THEN ChatGPTLoop(list, r.all, r.offset, maxLimit, stopId)
  ELSE [conversations |-> r.all, found |-> r.found]

FetchAllChatGPT(list, maxLimit, stopId) == ChatGPTLoop(list, <<>>, 0, maxLimit, stopId)

\* -------------------------------------------------- claude-api.js list fetcher
FetchAllClaude(list, maxLimit, stopId) ==
  LET stopIndex == FindIndex(list, stopId)
      cut == stopId # Null /\ stopIndex # 0
      filtered == IF cut THEN SliceBeforeStop(list, stopIndex) ELSE list
      limited == IF maxLimit # 0 /\ Len(filtered) > maxLimit
                 THEN SubSeq(filtered, 1, maxLimit) ELSE filtered
  IN [conversations |-> limited, found |-> cut]

\* ---------------------------------------- chatgpt-sync-state-manager.js
\* The default state getChatGPTSyncState returns when nothing is stored.
DefaultSyncState ==
  [lastFullSync |-> NoTime, lastQuickSync |-> NoTime,
   lastKnownConversationId |-> Null, quickSyncDepth |-> DefaultQuickSyncDepth]

\* updateChatGPTSyncState: { ...currentState, ...updates }.
UpdateSyncState(state, updates) ==
  [k \in DOMAIN state |-> IF k \in DOMAIN updates THEN updates[k] ELSE state[k]]

\* setChatGPTLastSyncedConversation(conversationId, type).
SetLastSyncedConversation(state, conversationId, type, clock) ==
  UpdateSyncState(state,
    IF type = "quick"
    THEN [lastKnownConversationId |-> conversationId, lastQuickSync |-> clock]
    ELSE [lastKnownConversationId |-> conversationId, lastFullSync |-> clock])

\* ------------------------------------------------ chatgpt-api.js converter
\* updated_at of convertChatGPTAPIToDBFormat: update_time when the payload
\* carries one, new Date() otherwise.
ConvertedUpdatedAt(updateTime, clock) ==
  IF updateTime # NoTime THEN updateTime ELSE clock

\* updated_at of one entry of the quick sync's check payload: null when the
\* list item carries no update_time.
CheckPayloadUpdatedAt(updateTime) == updateTime

\* ------------------------------------------------------------ backend Store
\* check(source, externalId, remoteUpdatedAt): absent locally, or the remote
\* timestamp unknown, or strictly newer than the stored one.
NeedsSyncNotOlder(st, id, remoteUpdatedAt) ==
  \/ st[id] = NoRow
  \/ remoteUpdatedAt = NoTime
  \/ remoteUpdatedAt >= st[id]
NeedsSync(st, id, remoteUpdatedAt) ==
  \/ st[id] = NoRow
  \/ remoteUpdatedAt = NoTime
  \/ remoteUpdatedAt > st[id]

\* POST /api/conversations/check: the ids of the payload that need sync.
CheckNeedsSync(st, payload) ==
  {payload[k].id : k \in {j \in 1..Len(payload) :
                            NeedsSync(st, payload[j].id, payload[j].ut)}}

\* upsert(Conversation): what the Store answers for one conversation.
UpsertNoGuardResult(st, id, updatedAt) ==
  IF st[id] = NoRow THEN "inserted" ELSE "updated"
UpsertResult(st, id, updatedAt) ==
  IF st[id] = NoRow THEN "inserted"
  ELSE IF updatedAt > st[id] THEN "updated"
  ELSE "skipped"

\* upsert(Conversation): the Store afterwards.
Upsert(st, id, updatedAt) ==
  IF UpsertResult(st, id, updatedAt) = "skipped" THEN st
  ELSE [st EXCEPT ![id] = updatedAt]

\* --------------------------------------------------- one sync run (part_017)
NoReport == [sent |-> FALSE, synced |-> 0, failed |-> 0, total |-> 0]
\* The summary a run sends: a variant without the failure count, and the code's.
SyncCompleteCountsOnly(s, f, t) ==
  [sent |-> TRUE, synced |-> s, failed |-> 0, total |-> t]
SyncComplete(s, f, t) == [sent |-> TRUE, synced |-> s, failed |-> f, total |-> t]
NoDetail == [id |-> Null, ut |-> NoTime]
NoOpts == [maxLimit |-> 0, stopAtConversationId |-> Null]
NoUpsert == [id |-> Null, updatedAt |-> NoTime, result |-> "none"]
NoSingle == [id |-> Null, updatedAt |-> NoTime]

Quiescent == pc = "idle"

\* What the catch of one item does with the loop: the failure is counted and
\* the loop goes on with the next item.
AfterItemAbortOnFailure(result, next, len) ==
  IF result # "ok" THEN "done" ELSE IF next >= len THEN "finish" ELSE "items"
AfterItem(result, next, len) == IF next >= len THEN "finish" ELSE "items"

TypeOK ==
  /\ pc \in {"idle", "list", "check", "items", "finish", "done"}
  /\ mode \in {"none", "full", "quick"}
  /\ now \in 1..MaxTime
  /\ store \in [ConvIds -> (NoRow..MaxTime)]
  /\ i \in 0..Len(toSync)
  /\ synced \in Nat /\ failed \in Nat

PlannerInit ==
  /\ remote = <<>>
  /\ now = 1
  /\ store = [id \in ConvIds |-> NoRow]
  /\ syncState = DefaultSyncState
  /\ pc = "idle"
  /\ mode = "none"
  /\ opts = NoOpts
  /\ offset = 0
  /\ allConversations = <<>>
  /\ conversations = <<>>
  /\ toSync = <<>>
  /\ i = 0
  /\ detail = NoDetail
  /\ requested = 0
  /\ synced = 0
  /\ failed = 0
  /\ report = NoReport
  /\ notification = "none"
  /\ outcomes = <<>>
  /\ storeAtStart = [id \in ConvIds |-> NoRow]
  /\ runInserted = 0
  /\ runUpdated = 0
  /\ quietFulls = 0
  /\ lastUpsert = NoUpsert
  /\ single = NoSingle

FetchIdle ==
  /\ fList = <<>>
  /\ fOpts = NoOpts
  /\ fApplied = "none"
  /\ fResult = [conversations |-> <<>>, found |-> FALSE]

\* ------------------------------------------- values before anything has run
Writers == {"w1", "w2"}
StoreKeys == {"k1", "k2"}
NoTx == [state |-> "idle", key |-> Null, n |-> 0, phase |-> "none", done |-> 0]
NoStoredRow == [by |-> Null, n |-> 0, msgs |-> {}]
GeminiBases == {"a", "b"}
\* lastKnownConversationId: null of the default sync state.
NoGeminiId == [pfx |-> 0, base |-> "null"]
NoDecodeInput == [source |-> "none", format |-> "none", entries |-> <<>>,
                  parents |-> <<>>, current |-> 0]

StoreIdle ==
  /\ txs = [w \in Writers |-> NoTx]
  /\ work = [k \in StoreKeys |-> NoStoredRow]
  /\ committed = [k \in StoreKeys |-> NoStoredRow]

GeminiIdle ==
  /\ gApi = <<>>
  /\ gDom = <<>>
  /\ gCandidates = <<>>
  /\ gI = 0
  /\ gPc = "idle"
  /\ gStore = {}
  /\ gImports = [b \in GeminiBases |-> 0]
  /\ gMode = "all"
  /\ gToSync = <<>>
  /\ gSyncState = NoGeminiId

DecodeIdle ==
  /\ dInput = NoDecodeInput
  /\ dApplied = FALSE
  /\ dMessages = <<>>

\* continuationToken = null, and the token a request carries when there is
\* none: the session token of the page.
NullToken == [type |-> "null", val |-> ""]
SessionToken == [type |-> "string", val |-> "session"]

PagingIdle ==
  /\ pPc = "idle"
  /\ pCont = NullToken
  /\ pSent = <<>>
  /\ pHandled = <<>>
  /\ pAll = 0

EnvelopeIdle ==
  /\ eEnvelopes = <<<<>>, <<>>>>
  /\ eApplied = FALSE
  /\ eResults = <<"none", "none">>

\* The sources with a content script, and the key each sync-state manager
\* keeps its record under.
Sources == {"chatgpt", "gemini"}
SyncStateKey(source) ==
  IF source = "chatgpt" THEN "chatgpt_sync_state" ELSE "gemini_sync_state"
StorageKeys == {"chatgpt_sync_state", "claude_sync_state", "gemini_sync_state"}
\* conversation_id values the sources may both use.
ExternalIds == {"x", "y"}
\* A request a loop body awaits: signal says whether the fetch carries an
\* AbortController signal, posts counts the import requests the content script
\* sent for the item, tries the write attempts the Store made for the latest.
NoRequest ==
  [kind |-> "none", id |-> Null, signal |-> FALSE, posts |-> 0, tries |-> 0]
NoResult == [kind |-> "none", id |-> Null, posts |-> 0, tries |-> 0]

SourcesIdle ==
  /\ sStorage = [k \in StorageKeys |-> Null]
  /\ sRows = {}
  /\ sPending = [s \in Sources |-> NoRequest]
  /\ sActor = "none"
  /\ sResult = NoResult

\* Most rows the conversations table is given (id INTEGER PRIMARY KEY
\* AUTOINCREMENT: an id is not given out twice).
MaxFtsRows == 2
RowIds == 1..MaxFtsRows
\* title and full_text of a row, taken as one value; NoContent: no such row.
Contents == {"t1", "t2", "t3"}
NoContent == "none"

FtsIdle ==
  /\ qRows = [r \in RowIds |-> NoContent]
  /\ qIndex = {}
  /\ qNext = 0

\* Object.keys(SERVICE_SCRIPTS), in order.
Services == <<"claude", "chatgpt", "gemini">>

TriggerIdle ==
  /\ bPc = "idle"
  /\ bMode = "none"
  /\ bEnabled = {}
  /\ bThrows = {}
  /\ bNoTab = {}
  /\ bI = 0
  /\ bTriggered = {}

ListingIdle ==
  /\ lRemote = <<>>
  /\ lPc = "idle"
  /\ lOffset = 0
  /\ lAll = <<>>

RunsIdle == nRuns = <<>>

\* The two callers of the sync-state manager that can be in a call at once.
Callers == {"first", "second"}
NoCall ==
  [stage |-> "idle", kind |-> "none", conversationId |-> Null,
   type |-> "quick", clock |-> NoTime, depth |-> 0,
   currentState |-> DefaultSyncState]

UpdatesIdle ==
  /\ uState = DefaultSyncState
  /\ uCalls = [c \in Callers |-> NoCall]

\* Most nodes of a mapping.
MaxNodes == 3
Nodes == 1..MaxNodes
\* parent: null of a root node.
NoParent == 0
\* mapping[nodeId] of an id the mapping does not hold.
NoNode == -1

WalkIdle ==
  /\ wMapping = [n \in Nodes |-> NoNode]
  /\ wNode = NoParent
  /\ wSteps = 0
  /\ wPc = "idle"

\* const SYNC_INTERVAL = 2; // hours
SYNC_INTERVAL == 2
\* No alarm named autoSync exists.
NoAlarm == 0

BackgroundIdle ==
  /\ aSetting = SYNC_INTERVAL
  /\ aPeriod = NoAlarm
  /\ aFired = 0
  /\ mPc = "idle"
  /\ mService = "none"
  /\ mAnswer = "none"
  /\ mResponse = "none"

LateIdle ==
  ListingIdle /\ RunsIdle /\ UpdatesIdle /\ WalkIdle /\ BackgroundIdle

MoreIdle == SourcesIdle /\ FtsIdle /\ TriggerIdle /\ LateIdle

WireIdle == PagingIdle /\ EnvelopeIdle /\ MoreIdle

AsideIdle == StoreIdle /\ GeminiIdle /\ DecodeIdle /\ WireIdle

runVars == <<pc, mode, opts, offset, allConversations, conversations, toSync,
             i, detail, requested, synced, failed, report, notification, outcomes,
             storeAtStart, runInserted, runUpdated>>

\* --- the remote service: a conversation is created (with or without an
\* update_time in its payloads) or continued; either puts it first in the list.
RemoteCreate(id, hasTime) ==
  /\ Quiescent
  /\ now < MaxTime
  /\ id \notin IdsOf(remote)
  /\ now' = now + 1
  /\ remote' = <<[id |-> id, ut |-> IF hasTime THEN now + 1 ELSE NoTime]>> \o remote
  /\ quietFulls' = 0
  /\ UNCHANGED <<store, syncState, runVars, lastUpsert, others>>

RemoteUpdate(id) ==
  /\ Quiescent
  /\ now < MaxTime
  /\ \E k \in 1..Len(remote) : remote[k].id = id /\ remote[k].ut # NoTime
  /\ now' = now + 1
  /\ remote' = <<[id |-> id, ut |-> now + 1]>>
                 \o SelectSeq(remote, LAMBDA c : c.id # id)
  /\ quietFulls' = 0
  /\ UNCHANGED <<store, syncState, runVars, lastUpsert, others>>

\* Time passes between runs.
Tick ==
  /\ Quiescent
  /\ now < MaxTime
  /\ now' = now + 1
  /\ UNCHANGED <<remote, store, syncState, runVars, quietFulls, lastUpsert, others>>

\* --- the onMessage listener starts a run
StartRun(m, o) ==
  /\ pc' = "list"
  /\ mode' = m
  /\ opts' = o
  /\ offset' = 0
  /\ allConversations' = <<>>
  /\ conversations' = <<>>
  /\ toSync' = <<>>
  /\ i' = 0
  /\ detail' = NoDetail
  /\ requested' = 0
  /\ synced' = 0
  /\ failed' = 0
  /\ report' = NoReport
  /\ notification' = "info"
  /\ outcomes' = <<>>
  /\ storeAtStart' = store
  /\ runInserted' = 0
  /\ runUpdated' = 0

\* action 'syncAll': performSyncAll calls fetchAllConversationsViaAPI().
StartSyncAll ==
  /\ Quiescent
  /\ StartRun("full", NoOpts)
  /\ UNCHANGED <<remote, now, store, syncState, quietFulls, lastUpsert, others>>

\* action 'syncQuick': performSyncQuick reads the sync state and calls
\* fetchAllConversationsViaAPI({maxLimit, stopAtConversationId}).
StartSyncQuick ==
  /\ Quiescent
  /\ StartRun("quick",
       [maxLimit |-> syncState.quickSyncDepth,
        stopAtConversationId |-> syncState.lastKnownConversationId])
  /\ quietFulls' = 0
  /\ UNCHANGED <<remote, now, store, syncState, lastUpsert, others>>

\* --- fetchAllConversationsViaAPI, one page per step
\* The list request fails (response not ok): the run's catch shows an error
\* notification and rethrows to the listener.
ListFail ==
  /\ pc = "list"
  /\ pc' = "done"
  /\ notification' = "error"
  /\ quietFulls' = 0
  /\ UNCHANGED <<remote, now, store, syncState, mode, opts, offset,
                 allConversations, conversations, toSync, i, detail, requested, synced,
                 failed, report, outcomes, storeAtStart, runInserted,
                 runUpdated, lastUpsert, others>>

\* What the run does once fetchAllConversationsViaAPI has returned `convs`.
AfterList(convs) ==
  IF convs = <<>>
  THEN /\ pc' = "done"
       /\ toSync' = <<>>
       /\ IF mode = "quick" /\ opts.stopAtConversationId # Null
          THEN notification' = "success" /\ report' = SyncComplete(0, 0, 0)
          ELSE notification' = "error" /\ report' = report
  ELSE /\ pc' = IF mode = "quick" THEN "check" ELSE "items"
       /\ toSync' = IF mode = "quick" THEN <<>> ELSE convs
       /\ notification' = "info"
       /\ report' = report

\* A page arrives, with or without data.total.
ListPage(withTotal) ==
  /\ pc = "list"
  /\ LET r == ChatGPTPageStep(allConversations, ChatGPTPage(remote, offset),
                              offset, IF withTotal THEN Len(remote) ELSE 0,
                              opts.maxLimit, opts.stopAtConversationId) IN
     /\ allConversations' = r.all
     /\ offset' = r.offset
     /\ IF r.more
        THEN /\ conversations' = conversations
             /\ UNCHANGED <<pc, toSync, notification, report>>
        ELSE /\ conversations' = r.all
             /\ AfterList(r.all)
  /\ UNCHANGED <<remote, now, store, syncState, mode, opts, i, detail, requested, synced,
                 failed, outcomes, storeAtStart, runInserted, runUpdated,
                 quietFulls, lastUpsert, others>>

\* --- performSyncQuick: POST /api/conversations/check
CheckPayload(convs) ==
  [k \in 1..Len(convs) |->
     [id |-> convs[k].id, ut |-> CheckPayloadUpdatedAt(convs[k].ut)]]

CheckFail ==
  /\ pc = "check"
  /\ pc' = "done"
  /\ notification' = "error"
  /\ UNCHANGED <<remote, now, store, syncState, mode, opts, offset,
                 allConversations, conversations, toSync, i, detail, requested, synced,
                 failed, report, outcomes, storeAtStart, runInserted,
                 runUpdated, quietFulls, lastUpsert, others>>

Check ==
  /\ pc = "check"
  /\ LET needsSyncIds == CheckNeedsSync(store, CheckPayload(conversations)) IN
     IF needsSyncIds = {}
     THEN /\ syncState' = SetLastSyncedConversation(syncState,
                             conversations[1].id, "quick", now)
          /\ notification' = "success"
          /\ report' = SyncComplete(0, 0, Len(conversations))
          /\ pc' = "done"
          /\ toSync' = toSync
     ELSE /\ toSync' = FilterSeq(conversations, needsSyncIds)
          /\ pc' = "items"
          /\ UNCHANGED <<syncState, notification, report>>
  /\ UNCHANGED <<remote, now, store, mode, opts, offset, allConversations,
                 conversations, i, detail, requested, synced, failed, outcomes,
                 storeAtStart, runInserted, runUpdated, quietFulls, lastUpsert, others>>

\* --- the item loop of performSyncAll / performSyncQuick
RemoteItem(id) == remote[FindIndex(remote, id)]

\* The loop body awaits the fetch, the conversion and the import of an item
\* before the next pass: a detail request goes out when none is in flight.
MayFetchAnytime(inFlight) == TRUE
MayFetch(inFlight) == inFlight = NoDetail

\* fetchConversationMessages answers and the payload converts.
ItemFetch ==
  /\ pc = "items"
  /\ MayFetch(detail)
  /\ requested' = requested + 1
  /\ detail' = RemoteItem(toSync[i + 1].id)
  /\ UNCHANGED <<remote, now, store, syncState, pc, mode, opts, offset,
                 allConversations, conversations, toSync, i, synced, failed,
                 report, notification, outcomes, storeAtStart, runInserted,
                 runUpdated, quietFulls, lastUpsert, others>>

\* fetchConversationMessages or convertChatGPTAPIToDBFormat throws.
ItemFetchFail(result) ==
  /\ pc = "items"
  /\ detail = NoDetail
  /\ requested' = requested + 1
  /\ failed' = failed + 1
  /\ outcomes' = Append(outcomes, [id |-> toSync[i + 1].id, result |-> result])
  /\ i' = i + 1
  /\ pc' = AfterItem(result, i + 1, Len(toSync))
  /\ UNCHANGED <<remote, now, store, syncState, mode, opts, offset,
                 allConversations, conversations, toSync, detail, synced,
                 report, notification, storeAtStart, runInserted, runUpdated,
                 quietFulls, lastUpsert, others>>

\* POST /api/import/chatgpt answers ok: the Store upserted the conversation.
ItemImport ==
  /\ pc = "items"
  /\ detail # NoDetail
  /\ LET updatedAt == ConvertedUpdatedAt(detail.ut, now)
         res == UpsertResult(store, detail.id, updatedAt) IN
     /\ store' = Upsert(store, detail.id, updatedAt)
     /\ runInserted' = runInserted + (IF res = "inserted" THEN 1 ELSE 0)
     /\ runUpdated' = runUpdated + (IF res = "updated" THEN 1 ELSE 0)
     /\ lastUpsert' = [id |-> detail.id, updatedAt |-> updatedAt, result |-> res]
  /\ synced' = synced + 1
  /\ outcomes' = Append(outcomes, [id |-> detail.id, result |-> "ok"])
  /\ detail' = NoDetail
  /\ requested' = requested
  /\ i' = i + 1
  /\ pc' = AfterItem("ok", i + 1, Len(toSync))
  /\ UNCHANGED <<remote, now, syncState, mode, opts, offset, allConversations,
                 conversations, toSync, failed, report, notification,
                 storeAtStart, quietFulls, others>>

\* POST /api/import/chatgpt is rejected (response not ok) or throws.
ItemImportFail ==
  /\ pc = "items"
  /\ detail # NoDetail
  /\ failed' = failed + 1
  /\ outcomes' = Append(outcomes, [id |-> detail.id, result |-> "importFail"])
  /\ detail' = NoDetail
  /\ requested' = requested
  /\ i' = i + 1
  /\ pc' = AfterItem("importFail", i + 1, Len(toSync))
  /\ UNCHANGED <<remote, now, store, syncState, mode, opts, offset,
                 allConversations, conversations, toSync, synced, report,
                 notification, storeAtStart, runInserted, runUpdated,
                 quietFulls, lastUpsert, others>>

\* Whether the run may record its first item as the last synced conversation.
MayAdvance(nConversations, nFailed) == nConversations > 0

\* After the loop: the sync state is updated and the summary is sent.
Finish ==
  /\ pc = "finish"
  /\ syncState' = IF MayAdvance(Len(conversations), failed)
                  THEN SetLastSyncedConversation(syncState, conversations[1].id,
                                                 mode, now)
                  ELSE syncState
  /\ notification' = "success"
  /\ report' = SyncComplete(synced, failed,
                 IF mode = "full" THEN Len(conversations) ELSE Len(toSync))
  /\ quietFulls' = IF mode = "full" /\ failed = 0 THEN Min(quietFulls + 1, 2) ELSE 0
  /\ pc' = "done"
  /\ UNCHANGED <<remote, now, store, mode, opts, offset, allConversations,
                 conversations, toSync, i, detail, requested, synced, failed, outcomes,
                 storeAtStart, runInserted, runUpdated, lastUpsert, others>>

\* The async function of the run returns (or its rejection reaches the
\* listener's catch): its locals are gone.
RunReturns ==
  /\ pc = "done"
  /\ pc' = "idle"
  /\ mode' = "none"
  /\ opts' = NoOpts
  /\ offset' = 0
  /\ allConversations' = <<>>
  /\ conversations' = <<>>
  /\ toSync' = <<>>
  /\ i' = 0
  /\ detail' = NoDetail
  /\ requested' = 0
  /\ synced' = 0
  /\ failed' = 0
  /\ report' = NoReport
  /\ notification' = "none"
  /\ outcomes' = <<>>
  /\ storeAtStart' = [id \in ConvIds |-> NoRow]
  /\ runInserted' = 0
  /\ runUpdated' = 0
  /\ lastUpsert' = NoUpsert
  /\ UNCHANGED <<remote, now, store, syncState, quietFulls, others>>

Init == PlannerInit /\ FetchIdle /\ AsideIdle

Next ==
  \/ \E id \in ConvIds, hasTime \in BOOLEAN : RemoteCreate(id, hasTime)
  \/ \E id \in ConvIds : RemoteUpdate(id)
  \/ Tick
  \/ StartSyncAll
  \/ StartSyncQuick
  \/ ListFail
  \/ \E withTotal \in BOOLEAN : ListPage(withTotal)
  \/ CheckFail
  \/ Check
  \/ ItemFetch
  \/ \E result \in {"fetchFail", "decodeFail"} : ItemFetchFail(result)
  \/ ItemImport
  \/ ItemImportFail
  \/ Finish
  \/ RunReturns

Spec == Init /\ [][Next]_vars

\* ------------------------------------------------ the list fetchers alone
\* Every list of distinct ids up to MaxListLen, every maxLimit and stop id.
DistinctLists ==
  {l \in UNION {[1..n -> ListIds] : n \in 0..MaxListLen} :
     \A a, b \in DOMAIN l : a # b => l[a] # l[b]}

AsListItems(l) == [k \in DOMAIN l |-> [id |-> l[k], ut |-> 1]]

FetchInit ==
  /\ PlannerInit
  /\ AsideIdle
  /\ fList \in {AsListItems(l) : l \in DistinctLists}
  /\ fOpts \in [maxLimit : 0..MaxLimitOpt,
                stopAtConversationId : ListIds \cup {Null}]
  /\ fApplied = "none"
  /\ fResult = [conversations |-> <<>>, found |-> FALSE]

ApplyChatGPT ==
  /\ fApplied = "none"
  /\ fApplied' = "chatgpt"
  /\ fResult' = FetchAllChatGPT(fList, fOpts.maxLimit, fOpts.stopAtConversationId)
  /\ UNCHANGED <<plannerVars, single, fList, fOpts, aside>>

ApplyClaude ==
  /\ fApplied = "none"
  /\ fApplied' = "claude"
  /\ fResult' = FetchAllClaude(fList, fOpts.maxLimit, fOpts.stopAtConversationId)
  /\ UNCHANGED <<plannerVars, single, fList, fOpts, aside>>

FetchNext == ApplyChatGPT \/ ApplyClaude

SpecFetch == FetchInit /\ [][FetchNext]_vars

\* The items of the list that precede the stop conversation.
ItemsBefore(list, id) == SubSeq(list, 1, FindIndex(list, id) - 1)

C2_AdvanceOnlyAfterPersist ==
  [][syncState'.lastKnownConversationId # syncState.lastKnownConversationId
       => failed = 0]_vars

\* C3: at the end of a quick run, every listed conversation that was stored
\* with a known updated_at has been re-synced if and only if its remote
\* update time strictly exceeds the stored one.
C3_ResyncIffNewer ==
  (pc = "done" /\ mode = "quick" /\ report.sent) =>
     \A k \in 1..Len(remote) :
        (storeAtStart[remote[k].id] # NoRow /\ remote[k].ut # NoTime) =>
           (remote[k].id \in IdsOf(outcomes)
              <=> remote[k].ut > storeAtStart[remote[k].id])

\* Number of items of the run that ended with the given kind of result.
CountOutcomes(ok) ==
  Cardinality({k \in 1..Len(outcomes) : (outcomes[k].result = "ok") = ok})

\* C4: a failing item never ends the loop: while the loop runs every earlier
\* item has one outcome, and a run that entered the loop ends with one outcome
\* per item of the batch, in order, the failures counted as failed.
C4_FailureNeverAborts ==
  /\ pc = "items" => (Len(outcomes) = i /\ i < Len(toSync))
  /\ (pc = "done" /\ outcomes # <<>>) =>
        /\ Len(outcomes) = Len(toSync)
        /\ \A k \in 1..Len(toSync) : outcomes[k].id = toSync[k].id
        /\ failed = CountOutcomes(FALSE)
        /\ synced = CountOutcomes(TRUE)
        /\ report = SyncComplete(synced, failed, report.total)

\* A run whose first item failed and whose second item was still synced.
C4_Witness ==
  /\ pc = "done"
  /\ Len(outcomes) = 2
  /\ outcomes[1].result # "ok"
  /\ outcomes[2].result = "ok"
  /\ report.sent /\ report.failed = 1 /\ report.synced = 1

\* C5: a run that has ended has sent its summary of counts.
C5_RunAlwaysReports == pc = "done" => report.sent

\* C8: the second of two successive failure-free full runs with no remote
\* change in between inserts nothing and updates nothing.
C8_SecondFullSyncChangesNothing ==
  (pc = "done" /\ mode = "full" /\ report.sent /\ quietFulls = 2) =>
     (runInserted = 0 /\ runUpdated = 0)

\* ------------------------- performSync beside a run (part_017 lines 49-119)
\* fetchConversationMessages(conversationId) of the open conversation answers
\* and the payload is converted.
SingleFetch(id) ==
  /\ single = NoSingle
  /\ id \in IdsOf(remote)
  /\ single' = [id |-> id,
                updatedAt |-> ConvertedUpdatedAt(RemoteItem(id).ut, now)]
  /\ UNCHANGED <<plannerVars, fetchVars, aside>>

\* POST /api/import/chatgpt of that conversation answers ok.
SingleImport ==
  /\ single # NoSingle
  /\ store' = Upsert(store, single.id, single.updatedAt)
  /\ lastUpsert' = [id |-> single.id, updatedAt |-> single.updatedAt,
                    result |-> UpsertResult(store, single.id, single.updatedAt)]
  /\ single' = NoSingle
  /\ UNCHANGED <<remote, now, syncState, runVars, quietFulls, fetchVars, aside>>

\* The import is rejected or throws: performSync sends syncError.
SingleFail ==
  /\ single # NoSingle
  /\ single' = NoSingle
  /\ UNCHANGED <<plannerVars, fetchVars, aside>>

\* Quick runs whose requests all succeed, with performSync of the open
\* conversation going on beside them: the listener starts either without
\* waiting for the other.
OverlapNext ==
  \/ \E id \in ConvIds, hasTime \in BOOLEAN : RemoteCreate(id, hasTime)
  \/ \E id \in ConvIds : RemoteUpdate(id)
  \/ Tick
  \/ StartSyncQuick
  \/ ListPage(TRUE)
  \/ Check
  \/ ItemFetch
  \/ ItemImport
  \/ Finish
  \/ RunReturns
  \/ \E id \in ConvIds : SingleFetch(id)
  \/ SingleImport
  \/ SingleFail

SpecOverlap == Init /\ [][OverlapNext]_vars

\* C6: the updated_at of a stored conversation never decreases, whichever
\* import arrives.
C6_UpdatedAtNeverDecreases ==
  [][\A id \in ConvIds : store[id] # NoRow => store'[id] >= store[id]]_vars

\* The Store has answered an upsert that carried an older updated_at than the
\* row it holds.
C6_Witness ==
  /\ lastUpsert.id # Null
  /\ lastUpsert.updatedAt < store[lastUpsert.id]
  /\ lastUpsert.result = "skipped"

\* -------------------------------------- upsert transactions inside the Store
\* Most messages of a conversation handed to an upsert.
MaxRowMessages == 2

\* The writer lock of a (source, externalId) key: free when no transaction on
\* the key is open.
KeyFreeAlways(t, key) == TRUE
KeyFree(t, key) == \A w \in Writers : t[w].state = "active" => t[w].key # key

\* A stored conversation is complete: its messages are those of the upsert
\* that wrote the row, numbered 0..n-1 (UNIQUE(conversation_id, sequence_number)).
CompleteRow(row) ==
  row.msgs = {[seq |-> q, by |-> row.by] : q \in 0..(row.n - 1)}

\* POST /api/import reaches the Store with a conversation of n messages.
TxRequest(w, key, n) ==
  /\ txs[w].state = "idle"
  /\ txs' = [txs EXCEPT ![w] = [state |-> "waiting", key |-> key, n |-> n,
                                phase |-> "none", done |-> 0]]
  /\ UNCHANGED <<work, committed, plannerVars, fetchVars, single, wireVars,
                 geminiVars,
                 decodeVars>>

\* The writer transaction begins once the key is free.
TxBegin(w) ==
  /\ txs[w].state = "waiting"
  /\ KeyFree(txs, txs[w].key)
  /\ txs' = [txs EXCEPT ![w].state = "active", ![w].phase = "begun"]
  /\ UNCHANGED <<work, committed, plannerVars, fetchVars, single, wireVars,
                 geminiVars,
                 decodeVars>>

\* The conversation row is replaced.
TxWriteRow(w) ==
  /\ txs[w].state = "active" /\ txs[w].phase = "begun"
  /\ work' = [work EXCEPT ![txs[w].key].by = w, ![txs[w].key].n = txs[w].n]
  /\ txs' = [txs EXCEPT ![w].phase = "row"]
  /\ UNCHANGED <<committed, plannerVars, fetchVars, single, wireVars,
                 geminiVars,
                 decodeVars>>

\* DELETE of the conversation's messages.
TxDeleteMessages(w) ==
  /\ txs[w].state = "active" /\ txs[w].phase = "row"
  /\ work' = [work EXCEPT ![txs[w].key].msgs = {}]
  /\ txs' = [txs EXCEPT ![w].phase = "insert"]
  /\ UNCHANGED <<committed, plannerVars, fetchVars, single, wireVars,
                 geminiVars,
                 decodeVars>>

\* INSERT of the next message of the list.
TxInsertMessage(w) ==
  /\ txs[w].state = "active" /\ txs[w].phase = "insert"
  /\ txs[w].done < txs[w].n
  /\ work' = [work EXCEPT ![txs[w].key].msgs =
                @ \cup {[seq |-> txs[w].done, by |-> w]}]
  /\ txs' = [txs EXCEPT ![w].done = @ + 1]
  /\ UNCHANGED <<committed, plannerVars, fetchVars, single, wireVars,
                 geminiVars,
                 decodeVars>>

\* COMMIT after the last message and the full-text projection.
TxCommit(w) ==
  /\ txs[w].state = "active" /\ txs[w].phase = "insert"
  /\ txs[w].done = txs[w].n
  /\ committed' = [committed EXCEPT ![txs[w].key] = work[txs[w].key]]
  /\ txs' = [txs EXCEPT ![w] = NoTx]
  /\ UNCHANGED <<work, plannerVars, fetchVars, single, wireVars,
                 geminiVars, decodeVars>>

\* ROLLBACK: a write of the transaction (the projection's, say) failed.
TxAbort(w) ==
  /\ txs[w].state = "active"
  /\ work' = [work EXCEPT ![txs[w].key] = committed[txs[w].key]]
  /\ txs' = [txs EXCEPT ![w] = NoTx]
  /\ UNCHANGED <<committed, plannerVars, fetchVars, single, wireVars,
                 geminiVars,
                 decodeVars>>

StoreNext ==
  \/ \E w \in Writers, key \in StoreKeys, n \in 1..MaxRowMessages :
        TxRequest(w, key, n)
  \/ \E w \in Writers : TxBegin(w)
  \/ \E w \in Writers : TxWriteRow(w)
  \/ \E w \in Writers : TxDeleteMessages(w)
  \/ \E w \in Writers : TxInsertMessage(w)
  \/ \E w \in Writers : TxCommit(w)
  \/ \E w \in Writers : TxAbort(w)

SpecStore == Init /\ [][StoreNext]_vars

\* C7: at most one writer transaction is open per key, and the row readers
\* see is always one complete conversation: the row and every message come
\* from the same upsert.
C7_OneWriterWholeRow ==
  /\ \A w1, w2 \in Writers :
       (w1 # w2 /\ txs[w1].state = "active" /\ txs[w2].state = "active")
          => txs[w1].key # txs[w2].key
  /\ \A k \in StoreKeys : CompleteRow(committed[k])

\* Two upserts of one key overlap: one is writing over the row the other
\* committed earlier, and the other, back with a new upsert, waits.
C7_Witness ==
  \E w1, w2 \in Writers :
    /\ w1 # w2
    /\ txs[w1].state = "active" /\ txs[w1].phase = "insert" /\ txs[w1].done > 0
    /\ txs[w2].state = "waiting" /\ txs[w2].key = txs[w1].key
    /\ committed[txs[w1].key].by = w2
    /\ work[txs[w1].key] # committed[txs[w1].key]

\* ------------------------------------ Gemini ids (gemini-api.js, part_016)
\* A raw id is "c_" repeated pfx times followed by the hexadecimal base. The
\* list request answers ids with or without the prefix; the sidebar's jslog
\* attribute always carries it.
RawIds == [pfx : 0..1, base : GeminiBases]
DomRawIds == {id \in RawIds : id.pfx = 1}
\* Most imports counted per conversation.
MaxImports == 2
\* Most pages of a list answer and most sidebar elements.
MaxPages == 2
MaxDomLen == 2

SeqsUpTo(S, n) == UNION {[1..m -> S] : m \in 0..n}
\* A page of the list answer: no entry or one.
GeminiPages == SeqsUpTo(RawIds, 1)

\* String(id).replace(/^c_/, ''): one leading prefix is removed.
NormalizeIdentity(id) == id
NormalizeConversationId(id) ==
  IF id.pfx > 0 THEN [id EXCEPT !.pfx = @ - 1] ELSE id

\* match[1].replace(/^c_/, '') on every sidebar element.
ExtractConversationIDsFromDOM(dom) ==
  [k \in DOMAIN dom |-> [dom[k] EXCEPT !.pfx = @ - 1]]

\* pageConversations.map(...): the id of every entry is normalized.
NormalizePage(page) ==
  [k \in DOMAIN page |-> [id |-> NormalizeConversationId(page[k]),
                          stub |-> FALSE]]

\* The do-while loop over the pages: allConversations.concat(...).
RECURSIVE ConcatPages(_, _)
ConcatPages(pages, k) ==
  IF k > Len(pages) THEN <<>>
  ELSE NormalizePage(pages[k]) \o ConcatPages(pages, k + 1)

\* domConversationIDs.filter(id => !fetchedIDs.includes(id)).
RECURSIVE MissingIDs(_, _)
MissingIDs(domIds, fetchedIDs) ==
  IF domIds = <<>> THEN <<>>
  ELSE (IF Head(domIds) \in fetchedIDs THEN <<>> ELSE <<Head(domIds)>>)
       \o MissingIDs(Tail(domIds), fetchedIDs)

\* allConversations.unshift(stubConversation) for every missing id in turn.
RECURSIVE PrependStubs(_, _, _)
PrependStubs(all, missing, k) ==
  IF k > Len(missing) THEN all
  ELSE PrependStubs(<<[id |-> missing[k], stub |-> TRUE]>> \o all, missing, k + 1)

\* The deduplication loop over allConversations with the Set seenIDs.
RECURSIVE Deduplicate(_, _, _, _)
Deduplicate(all, k, seenIDs, out) ==
  IF k > Len(all) THEN out
  ELSE LET convId == NormalizeConversationId(all[k].id) IN
       IF convId \in seenIDs THEN Deduplicate(all, k + 1, seenIDs, out)
       ELSE Deduplicate(all, k + 1, seenIDs \cup {convId},
                        Append(out, [all[k] EXCEPT !.id = convId]))

\* fetchAllConversationsViaAPI() of gemini-api.js.
FetchAllGemini(pages, dom) ==
  LET domConversationIDs == ExtractConversationIDsFromDOM(dom)
      allConversations0 == ConcatPages(pages, 1)
      fetchedIDs == {allConversations0[k].id : k \in DOMAIN allConversations0}
      missingIDs == MissingIDs(domConversationIDs, fetchedIDs)
  IN Deduplicate(PrependStubs(allConversations0, missingIDs, 1), 1, {}, <<>>)

\* getConversationId(): the id in the page's path /app/<id>, which carries no
\* prefix (conversations are requested under /app/ + the normalized id).
UrlConversationId(base) == [pfx |-> 0, base |-> base]

\* The Store's upsert of source 'gemini', keyed by the conversation_id sent.
GeminiUpsert(rows, conversationId) == rows \cup {conversationId}

CountImport(counts, base) ==
  [counts EXCEPT ![base] = Min(@ + 1, MaxImports)]

\* performSyncAll: the list is fetched; an empty list ends the run.
GeminiStartSyncAll(pages, dom) ==
  /\ gPc = "idle"
  /\ LET result == FetchAllGemini(pages, dom) IN
       IF Len(result) = 0
       THEN UNCHANGED <<gApi, gDom, gCandidates, gI, gPc, gMode,
                        gToSync>>
       ELSE /\ gApi' = pages
            /\ gDom' = dom
            /\ gCandidates' = result
            /\ gToSync' = result
            /\ gI' = 0
            /\ gMode' = "all"
            /\ gPc' = "items"
  /\ UNCHANGED <<gStore, gImports, gSyncState, plannerVars, fetchVars, single, wireVars,
                 storeVars, decodeVars>>

\* performSyncQuick: the list is fetched (the fetcher takes no options), the
\* Store names the conversations that need syncing, and those are the loop's.
\* An empty list, or nothing to sync, ends the run before the loop.
GeminiStartSyncQuick(pages, dom, needsSyncIds) ==
  /\ gPc = "idle"
  /\ LET convList == FetchAllGemini(pages, dom)
         toSyncList ==
           FilterSeq(convList, needsSyncIds)
     IN /\ needsSyncIds \subseteq IdsOf(convList)
        /\ IdsOf(convList) \ gStore \subseteq needsSyncIds
        /\ IF Len(convList) = 0 \/ needsSyncIds = {}
           THEN UNCHANGED <<gApi, gDom, gCandidates, gI, gPc, gMode,
                            gToSync>>
           ELSE /\ gApi' = pages
                /\ gDom' = dom
                /\ gCandidates' = convList
                /\ gToSync' = toSyncList
                /\ gI' = 0
                /\ gMode' = "quick"
                /\ gPc' = "items"
  /\ UNCHANGED <<gStore, gImports, gSyncState, plannerVars, fetchVars, single, wireVars,
                 storeVars, decodeVars>>

\* One item of the loop is fetched, converted and imported.
GeminiItemImport ==
  /\ gPc = "items" /\ gI < Len(gToSync)
  /\ gStore' = GeminiUpsert(gStore, gToSync[gI + 1].id)
  /\ gImports' = CountImport(gImports, gToSync[gI + 1].id.base)
  /\ gI' = gI + 1
  /\ UNCHANGED <<gApi, gDom, gCandidates, gPc, gMode, gToSync,
                 gSyncState, plannerVars, fetchVars, single, wireVars,
                 storeVars,
                 decodeVars>>

\* One item of the loop fails: failed++ and the loop goes on.
GeminiItemFail ==
  /\ gPc = "items" /\ gI < Len(gToSync)
  /\ gI' = gI + 1
  /\ UNCHANGED <<gApi, gDom, gCandidates, gPc, gStore, gImports, gMode,
                 gToSync, gSyncState, plannerVars, fetchVars, single, wireVars,
                 storeVars, decodeVars>>

\* After the loop the quick run writes conversations[0][0] to the sync state
\* (performSyncAll has no such statement); the summary is sent and the run's
\* locals are gone.
GeminiFinish ==
  /\ gPc = "items" /\ gI = Len(gToSync)
  /\ gSyncState' = IF gMode = "quick" THEN gCandidates[1].id
                                       ELSE gSyncState
  /\ gPc' = "idle"
  /\ gApi' = <<>> /\ gDom' = <<>> /\ gCandidates' = <<>> /\ gI' = 0
  /\ gToSync' = <<>> /\ gMode' = "all"
  /\ UNCHANGED <<gStore, gImports, plannerVars, fetchVars, single, wireVars,
                 storeVars,
                 decodeVars>>

\* performSync: the open conversation is extracted from the page and imported.
GeminiPerformSync(base) ==
  /\ gStore' = GeminiUpsert(gStore, UrlConversationId(base))
  /\ gImports' = CountImport(gImports, base)
  /\ UNCHANGED <<gApi, gDom, gCandidates, gI, gPc, gMode, gToSync,
                 gSyncState, plannerVars, fetchVars, single, wireVars,
                 storeVars,
                 decodeVars>>

GeminiNext ==
  \/ \E pages \in SeqsUpTo(GeminiPages, MaxPages),
        dom \in SeqsUpTo(DomRawIds, MaxDomLen) : GeminiStartSyncAll(pages, dom)
  \/ GeminiItemImport
  \/ GeminiItemFail
  \/ GeminiFinish
  \/ \E base \in GeminiBases : GeminiPerformSync(base)

SpecGemini == Init /\ [][GeminiNext]_vars

\* The full and the quick run of the Gemini content script on a page whose
\* sidebar shows no conversation element.
GeminiSyncNext ==
  \/ \E pages \in SeqsUpTo(GeminiPages, MaxPages) :
       GeminiStartSyncAll(pages, <<>>)
  \/ \E pages \in SeqsUpTo(GeminiPages, MaxPages),
        needsSyncIds \in SUBSET [pfx : {0}, base : GeminiBases] :
       GeminiStartSyncQuick(pages, <<>>, needsSyncIds)
  \/ GeminiItemImport
  \/ GeminiItemFail
  \/ GeminiFinish

SpecGeminiSync == Init /\ [][GeminiSyncNext]_vars

\* C12: at the end of every successful run of a source, full or incremental,
\* the source's last known id is the id of the first item of the list the run
\* observed.
C12_LastKnownIsFirstOfRun ==
  [][(gPc = "items" /\ gPc' = "idle") => gSyncState' = gCandidates[1].id]_vars

\* The raw ids the list answer and the sidebar carried in the current run.
ListedRawIds ==
  UNION {{gApi[p][k] : k \in DOMAIN gApi[p]} : p \in DOMAIN gApi}
    \cup {gDom[k] : k \in DOMAIN gDom}

C19_AtMostMaxLimit ==
  (fApplied # "none" /\ fOpts.maxLimit # 0) =>
    Len(fResult.conversations) <= fOpts.maxLimit

\* ------------------------------------------------ one item in flight
\* The detail requests of the run whose item has no outcome yet.
InFlight == requested - Len(outcomes)

ImportedInRun(id) ==
  \E j \in DOMAIN outcomes : outcomes[j] = [id |-> id, result |-> "ok"]

\* The check request for one entry of the run's list, with the timestamp the
\* entry carries.
EntryNeedsSync(entry) ==
  entry.id \in CheckNeedsSync(store, CheckPayload(<<entry>>))

MaxEntries == 3

\* Claude: msg.sender of an entry of chat_messages.
ClaudeSenders == {"human", "assistant", "other"}
\* ChatGPT: a node of mapping: a user or assistant message with text, a system
\* message (with text), a message whose text is blank, or a node without
\* message, content or author.
ChatGPTNodeKinds == {"user", "assistant", "system", "blank", "nomessage"}
\* Gemini: an exchange of apiData[0]: too short to be one, or with a user
\* text and an assistant text, one of them, or neither.
GeminiExchangeKinds == {"invalid", "both", "user", "assistant", "neither"}
\* Gemini: an entry of a message array: null, {role, text} with the role it
\* carries, a message array with text (msg[1] an array: user, null: assistant),
\* one too short, or one without text.
GeminiMessageKinds ==
  {"null", "userObject", "assistantObject", "systemObject",
   "userArray", "assistantArray", "short", "notext"}
\* msg.role of an object entry; msg[1] === null ? 'assistant' : 'user' of an
\* array entry.
GeminiRole(kind) ==
  IF kind \in {"userObject", "userArray"} THEN "user"
  ELSE IF kind \in {"assistantObject", "assistantArray"} THEN "assistant"
  ELSE "system"

\* convertClaudeAPIToDBFormat: chat_messages.forEach((msg, index) => ...).
RECURSIVE ConvertClaudeMessages(_, _, _)
ConvertClaudeMessages(chat_messages, index, messages) ==
  IF index >= Len(chat_messages) THEN messages
  ELSE LET sender == chat_messages[index + 1] IN
       ConvertClaudeMessages(chat_messages, index + 1,
         IF sender = "human"
         THEN Append(messages, [role |-> "user", sequence_number |-> index])
         ELSE IF sender = "assistant"
         THEN Append(messages, [role |-> "assistant", sequence_number |-> index])
         ELSE messages)

\* A walk that takes every node below nodeId, on the path or not.
RECURSIVE MessageChainAllNodes(_, _, _)
MessageChainAllNodes(mapping, nodeId, messageChain) ==
  IF nodeId = 0 \/ nodeId \notin DOMAIN mapping THEN messageChain
  ELSE MessageChainAllNodes(mapping, nodeId - 1,
         IF mapping[nodeId].kind # "nomessage"
         THEN <<mapping[nodeId]>> \o messageChain
         ELSE messageChain)

\* convertChatGPTAPIToDBFormat: the walk from current_node back to the root;
\* node 0 stands for null or an id mapping does not hold.
RECURSIVE MessageChain(_, _, _)
MessageChain(mapping, nodeId, messageChain) ==
  IF nodeId = 0 \/ nodeId \notin DOMAIN mapping THEN messageChain
  ELSE MessageChain(mapping, mapping[nodeId].parent,
         IF mapping[nodeId].kind # "nomessage"
         THEN <<mapping[nodeId]>> \o messageChain
         ELSE messageChain)

\* convertChatGPTAPIToDBFormat: messageChain.forEach((node, index) => ...).
RECURSIVE ConvertChatGPTMessages(_, _, _)
ConvertChatGPTMessages(messageChain, index, messages) ==
  IF index >= Len(messageChain) THEN messages
  ELSE LET kind == messageChain[index + 1].kind IN
       ConvertChatGPTMessages(messageChain, index + 1,
         IF kind \in {"system", "blank"} THEN messages
         ELSE Append(messages,
                [role |-> IF kind = "user" THEN "user" ELSE "assistant",
                 content |-> messageChain[index + 1].node,
                 sequence_number |-> Len(messages)]))

\* convertGeminiAPIToDBFormat: the loop over apiData[0] from its last exchange
\* to its first, pushing {role, text} objects.
RECURSIVE ReconstructMessageArray(_, _, _)
ReconstructMessageArray(exchanges, exchangeIndex, messageArray) ==
  IF exchangeIndex < 1 THEN messageArray
  ELSE LET kind == exchanges[exchangeIndex]
           user == IF kind \in {"both", "user"} THEN <<"userObject">> ELSE <<>>
           assistant == IF kind \in {"both", "assistant"}
                        THEN <<"assistantObject">> ELSE <<>>
       IN ReconstructMessageArray(exchanges, exchangeIndex - 1,
            messageArray \o user \o assistant)

\* convertGeminiAPIToDBFormat: messageArray.forEach((msg, index) => ...).
RECURSIVE ConvertGeminiMessages(_, _, _)
ConvertGeminiMessages(messageArray, index, messages) ==
  IF index >= Len(messageArray) THEN messages
  ELSE LET kind == messageArray[index + 1] IN
       ConvertGeminiMessages(messageArray, index + 1,
         IF kind \in {"userObject", "assistantObject", "systemObject",
                      "userArray", "assistantArray"}
         THEN Append(messages,
                [role |-> GeminiRole(kind), sequence_number |-> index])
         ELSE messages)

\* The message array convertGeminiAPIToDBFormat settles on.
GeminiMessageArray(format, entries) ==
  IF format = "exchanges" /\ Len(entries) >= 1
  THEN ReconstructMessageArray(entries, Len(entries), <<>>)
  ELSE IF format = "messages" THEN entries
  ELSE <<>>

\* Parent links of a mapping of n nodes: the parent of node k is an earlier
\* node or none.
ParentLinks(n) == {f \in [1..n -> 0..n] : \A k \in 1..n : f[k] < k}

ClaudeInput(e) ==
  [source |-> "claude", format |-> "chat_messages", entries |-> e,
   parents |-> <<>>, current |-> 0]
ChatGPTInput(e, f, c) ==
  [source |-> "chatgpt", format |-> "mapping", entries |-> e,
   parents |-> f, current |-> c]
GeminiInput(format, e) ==
  [source |-> "gemini", format |-> format, entries |-> e,
   parents |-> <<>>, current |-> 0]

\* Every detail payload of up to MaxEntries raw entries.
DecodeInit ==
  /\ PlannerInit
  /\ FetchIdle
  /\ StoreIdle
  /\ GeminiIdle
  /\ WireIdle
  /\ \E n \in 0..MaxEntries :
       \/ \E e \in [1..n -> ClaudeSenders] : dInput = ClaudeInput(e)
       \/ \E e \in [1..n -> ChatGPTNodeKinds], f \in ParentLinks(n), c \in 0..n :
            dInput = ChatGPTInput(e, f, c)
       \/ \E e \in [1..n -> GeminiExchangeKinds] :
            dInput = GeminiInput("exchanges", e)
       \/ \E e \in [1..n -> GeminiMessageKinds] :
            dInput = GeminiInput("messages", e)
  /\ dApplied = FALSE
  /\ dMessages = <<>>

DecodeClaude ==
  /\ ~dApplied /\ dInput.source = "claude"
  /\ dMessages' = ConvertClaudeMessages(dInput.entries, 0, <<>>)
  /\ dApplied' = TRUE
  /\ UNCHANGED <<dInput, plannerVars, fetchVars, single, wireVars,
                 storeVars, geminiVars>>

DecodeChatGPT ==
  /\ ~dApplied /\ dInput.source = "chatgpt"
  /\ LET mapping == [k \in DOMAIN dInput.entries |->
                       [node |-> k, kind |-> dInput.entries[k],
                        parent |-> dInput.parents[k]]]
     IN dMessages' =
          ConvertChatGPTMessages(MessageChain(mapping, dInput.current, <<>>), 0, <<>>)
  /\ dApplied' = TRUE
  /\ UNCHANGED <<dInput, plannerVars, fetchVars, single, wireVars,
                 storeVars, geminiVars>>

DecodeGemini ==
  /\ ~dApplied /\ dInput.source = "gemini"
  /\ dMessages' =
       ConvertGeminiMessages(GeminiMessageArray(dInput.format, dInput.entries), 0, <<>>)
  /\ dApplied' = TRUE
  /\ UNCHANGED <<dInput, plannerVars, fetchVars, single, wireVars,
                 storeVars, geminiVars>>

DecodeNext == DecodeClaude \/ DecodeChatGPT \/ DecodeGemini

SpecDecode == DecodeInit /\ [][DecodeNext]_vars

\* C10: the sequence numbers of a converted conversation are 0, 1, ..., n-1
\* in message order, whatever entries the converter skipped.
C10_SequenceNumbersFromZero ==
  dApplied => \A k \in DOMAIN dMessages : dMessages[k].sequence_number = k - 1

\* ------------------------------------------------- claims on the tree walk
\* The node reached from `node` by following `steps` parent links (0: none).
RECURSIVE ParentIter(_, _, _)
ParentIter(parents, node, steps) ==
  IF steps = 0 \/ node = 0 THEN node
  ELSE ParentIter(parents, parents[node], steps - 1)

\* The nodes on the path from the root to current_node; a parent has a smaller
\* number than its children, so root-to-leaf order is increasing order.
OnPath(parents, current) ==
  {k \in DOMAIN parents :
     \E steps \in 0..Len(parents) : ParentIter(parents, current, steps) = k}

\* The nodes whose text makes up the converted messages, in order.
ContentNodes == [k \in DOMAIN dMessages |-> dMessages[k].content]

\* C11 (as stated): the converted messages of a tree are exactly the nodes
\* with text on the path from the root to current_node, in root-to-leaf order.
C11_ExactlyNonEmptyPathNodes ==
  (dApplied /\ dInput.source = "chatgpt") =>
     /\ {ContentNodes[k] : k \in DOMAIN ContentNodes}
          = {n \in OnPath(dInput.parents, dInput.current) :
               dInput.entries[n] \in {"user", "assistant", "system"}}
     /\ \A a, b \in DOMAIN ContentNodes : a < b => ContentNodes[a] < ContentNodes[b]

\* C11 (amended): the converted messages of a tree are exactly the nodes on
\* the path from the root to current_node that carry text and are not system
\* messages, in root-to-leaf order; no node off the path appears.
C11_NonEmptyNonSystemPathNodes ==
  (dApplied /\ dInput.source = "chatgpt") =>
     /\ {ContentNodes[k] : k \in DOMAIN ContentNodes}
          = {n \in OnPath(dInput.parents, dInput.current) :
               dInput.entries[n] \in {"user", "assistant"}}
     /\ \A a, b \in DOMAIN ContentNodes : a < b => ContentNodes[a] < ContentNodes[b]

\* A tree with a branch: nodes 2 and 3 are both children of node 1, all carry
\* text, current_node is 3 and the conversion kept nodes 1 and 3 only.
C11_Witness ==
  /\ dApplied /\ dInput.source = "chatgpt"
  /\ Len(dInput.entries) = 3
  /\ dInput.parents = <<0, 1, 1>>
  /\ dInput.current = 3
  /\ \A n \in 1..3 : dInput.entries[n] \in {"user", "assistant"}
  /\ ContentNodes = <<1, 3>>

\* ------------------------------------------ the Gemini list request loop
\* Most list requests of one fetch, and most conversations of one page.
MaxRequests == 3
MaxPageConvs == 1
\* data[2] of a response that is not an array.
NotArray == -1

\* data[1] of a list response: null, a string (possibly empty), or a value of
\* another type.
ContinuationTokens ==
  {NullToken} \cup [type : {"string"}, val : {"", "t1", "t2"}]
              \cup {[type |-> "number", val |-> "7"]}

\* nextToken && ...: the value is truthy.
Truthy(token) == token.type # "null" /\ token.val # ""

\* What a list request is answered with: a status that is not ok; an envelope
\* without a wrb.fr item; a wrb.fr item whose data is null, a string that is
\* not JSON, or the JSON of an array [x, token] or [x, token, conversations].
ListResponses ==
  {[kind |-> k, len |-> 0, token |-> NullToken, convs |-> NotArray] :
     k \in {"notok", "nowrb", "null", "text"}}
  \cup {r \in [kind : {"array"}, len : 2..3, token : ContinuationTokens,
               convs : NotArray..MaxPageConvs] :
          r.len = 2 => r.convs = NotArray}

ParseThrew == [threw |-> TRUE, array |-> FALSE, len |-> 0, token |-> NullToken,
               convs |-> NotArray]

ParseNullThrows(resp) ==
  IF resp.kind \in {"nowrb", "null"} THEN ParseThrew
  ELSE [threw |-> FALSE, array |-> resp.kind = "array", len |-> resp.len,
        token |-> resp.token, convs |-> resp.convs]

\* parseBatchExecuteResponse, by the wrb.fr item of the envelope: null data
\* gives [null, null, []], a string that is not JSON is returned as it is,
\* and an envelope without a wrb.fr item throws.
ParseBatchExecuteResponse(resp) ==
  IF resp.kind = "nowrb" THEN ParseThrew
  ELSE IF resp.kind = "null"
  THEN [threw |-> FALSE, array |-> TRUE, len |-> 3, token |-> NullToken,
        convs |-> 0]
  ELSE [threw |-> FALSE, array |-> resp.kind = "array", len |-> resp.len,
        token |-> resp.token, convs |-> resp.convs]

\* fetchAllConversationsViaAPI reaches its do-loop with a session token.
PagingStart ==
  /\ pPc = "idle"
  /\ pPc' = "request"
  /\ UNCHANGED <<pCont, pSent, pHandled, pAll, plannerVars, fetchVars, single,
                 storeVars, geminiVars, decodeVars, envelopeVars, moreVars>>

\* extractSessionToken finds no token: the fetch throws before any request.
PagingNoSession ==
  /\ pPc = "idle"
  /\ pPc' = "threw"
  /\ UNCHANGED <<pCont, pSent, pHandled, pAll, plannerVars, fetchVars, single,
                 storeVars, geminiVars, decodeVars, envelopeVars, moreVars>>

\* One pass of the do-loop: the request carries continuationToken ||
\* sessionToken, and the response is parsed and handled.
ListRequest(resp) ==
  /\ pPc = "request"
  /\ Len(pSent) < MaxRequests
  /\ pSent' = Append(pSent, IF Truthy(pCont) THEN pCont ELSE SessionToken)
  /\ pHandled' = Append(pHandled, resp)
  /\ LET data == ParseBatchExecuteResponse(resp) IN
     IF resp.kind = "notok" \/ data.threw
     THEN /\ pPc' = "threw"
          /\ UNCHANGED <<pCont, pAll>>
     ELSE IF data.array /\ data.len >= 3
     THEN /\ pAll' = pAll + (IF data.convs # NotArray THEN data.convs ELSE 0)
          /\ IF Truthy(data.token) /\ data.token.type = "string"
             THEN pCont' = data.token /\ pPc' = "request"
             ELSE pCont' = NullToken /\ pPc' = "returned"
     ELSE /\ pCont' = NullToken
          /\ pPc' = "returned"
          /\ pAll' = pAll
  /\ UNCHANGED <<plannerVars, fetchVars, single, storeVars, geminiVars,
                 decodeVars, envelopeVars, moreVars>>

\* The caller has the result, or the error; the fetch's locals are gone.
PagingEnd ==
  /\ pPc \in {"returned", "threw"}
  /\ pPc' = "idle"
  /\ pCont' = NullToken /\ pSent' = <<>> /\ pHandled' = <<>> /\ pAll' = 0
  /\ UNCHANGED <<plannerVars, fetchVars, single, storeVars, geminiVars,
                 decodeVars, envelopeVars, moreVars>>

PagingNext ==
  \/ PagingStart
  \/ PagingNoSession
  \/ \E resp \in ListResponses : ListRequest(resp)
  \/ PagingEnd

SpecPaging == Init /\ [][PagingNext]_vars

\* The response the latest request was answered with.
LastHandled == pHandled[Len(pHandled)]

\* The response is a page without conversations.
EmptyPage(resp) ==
  resp.kind = "null" \/ (resp.kind = "array" /\ resp.len >= 3 /\ resp.convs = 0)

\* The response carries no continuation marker, or a null one.
NoMarker(resp) == resp.kind # "array" \/ resp.token = NullToken

\* C14: a list response that is empty, or carries a null or absent
\* continuation marker, ends the pagination: the loop is not at a further
\* request after it.
C14_EmptyOrUnmarkedPageEnds ==
  (pPc = "request" /\ pHandled # <<>>) =>
    ~(EmptyPage(LastHandled) \/ NoMarker(LastHandled))

\* C15: every request after the first carries the marker of the response
\* before it, unchanged, and the loop has ended only on a response whose
\* marker is absent or null.
C15_StopsOnlyOnNullMarker ==
  /\ \A k \in 2..Len(pSent) : pSent[k] = pHandled[k - 1].token
  /\ pPc = "returned" => NoMarker(LastHandled)

\* C16: a list response whose payload is null is a valid empty last page:
\* handling it raises no error, adds no conversation and ends the loop.
C16_NullPayloadIsEmptyLastPage ==
  [][(Len(pHandled') = Len(pHandled) + 1
        /\ pHandled'[Len(pHandled')].kind = "null")
       => (pPc' = "returned" /\ pAll' = pAll)]_vars

\* A fetch that collected a conversation has ended on a null payload.
C16_Witness ==
  /\ pPc = "returned"
  /\ Len(pHandled) >= 2
  /\ LastHandled.kind = "null"
  /\ pAll > 0

\* The payload has the structure of a list page: null, or an array of at
\* least three elements whose third is the array of conversations.
RecognizedPage(resp) ==
  \/ resp.kind = "null"
  \/ resp.kind = "array" /\ resp.len >= 3 /\ resp.convs # NotArray

\* C17: a payload whose structure is not recognized raises a decode failure:
\* a fetch that returned a result has handled recognized payloads only.
C17_UnrecognizedPayloadFails ==
  pPc = "returned" => \A k \in DOMAIN pHandled : RecognizedPage(pHandled[k])

\* ------------------------------------------ the batchexecute envelope
\* Most pieces of one logical response.
MaxContentLen == 3

\* The pieces of the JSON text of a response: the opening and the closing
\* bracket of the outer array, a wrb.fr item with its data, another item.
EnvelopeSymbols == {"[", "w1", "w2", "o", "]"}
WrbItems == {"w1", "w2"}
\* A line of digits only: the length that precedes a segment.
LengthLine == "#"

\* The lines of an envelope that carries content in length-prefixed segments,
\* a new segment starting after each piece whose position is in cuts.
RECURSIVE EnvelopeLines(_, _, _)
EnvelopeLines(content, cuts, k) ==
  IF k > Len(content) THEN <<>>
  ELSE (IF k = 1 \/ (k - 1) \in cuts THEN <<LengthLine>> ELSE <<>>)
         \o <<content[k]>> \o EnvelopeLines(content, cuts, k + 1)

\* The first length line is skipped.
StartIndex(lines) ==
  IF lines # <<>> /\ lines[1] = LengthLine THEN 2 ELSE 1

\* The lines between two length lines are joined into one chunk.
RECURSIVE SplitChunks(_, _, _, _)
SplitChunks(lines, k, currentChunk, chunks) ==
  IF k > Len(lines)
  THEN IF currentChunk # <<>> THEN Append(chunks, currentChunk) ELSE chunks
  ELSE IF lines[k] = LengthLine
  THEN SplitChunks(lines, k + 1, <<>>,
                   IF currentChunk # <<>> THEN Append(chunks, currentChunk)
                                          ELSE chunks)
  ELSE SplitChunks(lines, k + 1, Append(currentChunk, lines[k]), chunks)

\* JSON.parse(chunk) succeeds: the chunk is one whole array.
JsonParses(chunk) ==
  /\ Len(chunk) >= 2
  /\ chunk[1] = "[" /\ chunk[Len(chunk)] = "]"
  /\ \A k \in 2..(Len(chunk) - 1) : chunk[k] \in WrbItems \cup {"o"}

\* The data of the first wrb.fr item of a parsed chunk.
FirstWrb(chunk) ==
  chunk[CHOOSE k \in DOMAIN chunk :
          /\ chunk[k] \in WrbItems
          /\ \A j \in 1..(k - 1) : chunk[j] \notin WrbItems]

\* Each chunk is parsed on its own; the first wrb.fr item found is the result,
\* a chunk that does not parse is passed over, and no wrb.fr item throws.
RECURSIVE ParseChunks(_, _)
ParseChunks(chunks, k) ==
  IF k > Len(chunks) THEN "threw"
  ELSE IF JsonParses(chunks[k])
          /\ \E j \in DOMAIN chunks[k] : chunks[k][j] \in WrbItems
  THEN FirstWrb(chunks[k])
  ELSE ParseChunks(chunks, k + 1)

\* parseBatchExecuteResponse(text), by the lines of text.
ParseEnvelope(lines) ==
  ParseChunks(SplitChunks(lines, StartIndex(lines), <<>>, <<>>), 1)

\* Two envelopes of the same content, segmented at cutsA and at cutsB.
EnvelopeInit ==
  /\ PlannerInit
  /\ FetchIdle
  /\ StoreIdle
  /\ GeminiIdle
  /\ DecodeIdle
  /\ PagingIdle
  /\ MoreIdle
  /\ \E n \in 1..MaxContentLen :
       \E content \in [1..n -> EnvelopeSymbols],
          cutsA \in SUBSET (1..(n - 1)), cutsB \in SUBSET (1..(n - 1)) :
         eEnvelopes = <<EnvelopeLines(content, cutsA, 1),
                        EnvelopeLines(content, cutsB, 1)>>
  /\ eApplied = FALSE
  /\ eResults = <<"none", "none">>

ParseEnvelopes ==
  /\ ~eApplied
  /\ eApplied' = TRUE
  /\ eResults' = <<ParseEnvelope(eEnvelopes[1]), ParseEnvelope(eEnvelopes[2])>>
  /\ UNCHANGED <<eEnvelopes, plannerVars, fetchVars, single, storeVars,
                 geminiVars, decodeVars, pagingVars, moreVars>>

EnvelopeNext == ParseEnvelopes

SpecEnvelope == EnvelopeInit /\ [][EnvelopeNext]_vars

\* C18: two envelopes that carry the same content in segments cut at
\* different places parse to the same result.
C18_SegmentationIndependent ==
  eApplied => eResults[1] = eResults[2]

\* ---------------------------------------------------------------------------
\* Content scripts of several sources beside each other (SpecSources)
\* ---------------------------------------------------------------------------

\* fetchConversationMessages: a plain fetch to the remote service, no signal.
DetailRequest(id) ==
  [kind |-> "detail", id |-> id, signal |-> FALSE, posts |-> 0, tries |-> 0]

\* apiFetch('/api/import/<source>'): the background's fetchWithFallback gives
\* every candidate an AbortController that fires after 3000 ms.
ImportRequest(id) ==
  [kind |-> "import", id |-> id, signal |-> TRUE, posts |-> 1, tries |-> 1]

\* What the loop body does with an import that did not succeed: a variant that
\* posts the item a second time, and the code's (count the failure, go on).
OnImportFailureRepost(req) ==
  IF req.posts < 2 THEN [req EXCEPT !.posts = 2, !.tries = 1] ELSE NoRequest
OnImportFailure(req) == NoRequest

Outcome(kind, req) ==
  [kind |-> kind, id |-> req.id, posts |-> req.posts, tries |-> req.tries]

Row(source, id) == [source |-> source, conversation_id |-> id]
RowsOf(rows, source) == {r \in rows : r.source = source}

\* The table's constraints: conversation_id TEXT UNIQUE NOT NULL on the column,
\* UNIQUE(conversation_id, source) on the table.
SchemaAllows(rows, row) ==
  \A r \in rows : r.conversation_id # row.conversation_id

\* The upsert looks the row up by (source, conversation_id).
OwnUpsertResult(rows, source, id) ==
  IF Row(source, id) \in rows THEN "updated" ELSE "inserted"

StoreUpsertResult(rows, source, id) ==
  IF Row(source, id) \in rows THEN "updated"
  ELSE IF SchemaAllows(rows, Row(source, id)) THEN "inserted"
  ELSE "rejected"

SourceStep(s, pending, result) ==
  /\ sPending' = [sPending EXCEPT ![s] = pending]
  /\ sResult' = result
  /\ sActor' = s

\* for (conv of conversationsToSync): await fetchConversationMessages(conv.id)
SourceFetchDetail(s, id) ==
  /\ sPending[s] = NoRequest
  /\ SourceStep(s, DetailRequest(id), NoResult)
  /\ UNCHANGED <<sStorage, sRows, coreVars, lateVars, ftsVars, triggerVars>>

\* The detail arrives; the body converts it and awaits the import request.
SourceDetailAnswers(s) ==
  /\ sPending[s].kind = "detail"
  /\ SourceStep(s, ImportRequest(sPending[s].id), NoResult)
  /\ UNCHANGED <<sStorage, sRows, coreVars, lateVars, ftsVars, triggerVars>>

\* The detail request is answered with an error status: catch, failed++.
SourceDetailFails(s) ==
  /\ sPending[s].kind = "detail"
  /\ SourceStep(s, NoRequest, Outcome("detailError", sPending[s]))
  /\ UNCHANGED <<sStorage, sRows, coreVars, lateVars, ftsVars, triggerVars>>

\* The signal of a pending request fires: the fetch rejects, the body's catch
\* counts the item as failed.
SourceTimeout(s) ==
  /\ sPending[s].kind # "none"
  /\ sPending[s].signal
  /\ SourceStep(s, NoRequest, Outcome("timeout", sPending[s]))
  /\ UNCHANGED <<sStorage, sRows, coreVars, lateVars, ftsVars, triggerVars>>

\* The Store answers the import.
SourceImportAnswers(s) ==
  /\ sPending[s].kind = "import"
  /\ LET req == sPending[s]
         res == StoreUpsertResult(sRows, s, req.id)
     IN  IF res = "rejected"
         THEN /\ sPending' = [sPending EXCEPT ![s] = OnImportFailure(req)]
              /\ sResult' = IF OnImportFailure(req) = NoRequest
                              THEN Outcome("rejected", req) ELSE NoResult
              /\ sActor' = s
              /\ UNCHANGED sRows
         ELSE /\ SourceStep(s, NoRequest, Outcome(res, req))
              /\ sRows' = sRows \cup {Row(s, req.id)}
  /\ UNCHANGED <<sStorage, coreVars, lateVars, ftsVars, triggerVars>>

\* The Store finds a concurrent write on the key, serializes and tries again.
StoreRetries(s) ==
  /\ sPending[s].kind = "import"
  /\ sPending[s].tries = 1
  /\ SourceStep(s, [sPending[s] EXCEPT !.tries = 2], NoResult)
  /\ UNCHANGED <<sStorage, sRows, coreVars, lateVars, ftsVars, triggerVars>>

\* The second attempt meets a conflict too: the Store answers with the error,
\* the body takes the non-ok branch.
StoreSurfacesConflict(s) ==
  /\ sPending[s].kind = "import"
  /\ sPending[s].tries = 2
  /\ LET req == sPending[s]
     IN  /\ sPending' = [sPending EXCEPT ![s] = OnImportFailure(req)]
         /\ sResult' = IF OnImportFailure(req) = NoRequest
                         THEN Outcome("storeConflict", req) ELSE NoResult
         /\ sActor' = s
  /\ UNCHANGED <<sStorage, sRows, coreVars, lateVars, ftsVars, triggerVars>>

\* After the loop: set<Source>LastSyncedConversation(id).
SourceSetLast(s, id) ==
  /\ sPending[s] = NoRequest
  /\ sStorage[SyncStateKey(s)] # id
  /\ sStorage' = [sStorage EXCEPT ![SyncStateKey(s)] = id]
  /\ sActor' = s
  /\ sResult' = NoResult
  /\ UNCHANGED <<sRows, sPending, coreVars, lateVars, ftsVars, triggerVars>>

SourcesNext ==
  \/ \E s \in Sources, id \in ExternalIds : SourceFetchDetail(s, id)
  \/ \E s \in Sources : SourceDetailAnswers(s)
  \/ \E s \in Sources : SourceDetailFails(s)
  \/ \E s \in Sources : SourceTimeout(s)
  \/ \E s \in Sources : SourceImportAnswers(s)
  \/ \E s \in Sources : StoreRetries(s)
  \/ \E s \in Sources : StoreSurfacesConflict(s)
  \/ \E s \in Sources, id \in ExternalIds : SourceSetLast(s, id)

SpecSources == Init /\ [][SourcesNext]_vars

\* C21: a step of one source's run leaves the sync state record, the rows and
\* the pending request of every other source alone, and the answer to its
\* import is the one its own rows determine.
C21_SourcesIndependent ==
  [][\A s \in Sources :
       sActor' = s /\ sourceVars' # sourceVars =>
         /\ \A t \in Sources \ {s} :
              /\ sStorage'[SyncStateKey(t)] = sStorage[SyncStateKey(t)]
              /\ RowsOf(sRows', t) = RowsOf(sRows, t)
              /\ sPending'[t] = sPending[t]
         /\ sResult'.kind \in {"inserted", "updated", "rejected"} =>
              sResult'.kind = OwnUpsertResult(sRows, s, sResult'.id)]_vars

\* C23: every request a run is waiting for carries a signal that ends it after
\* bounded time.
C23_EveryFetchHasTimeout ==
  \A s \in Sources : sPending[s].kind # "none" => sPending[s].signal

\* C27: rows are keyed by (source, conversation_id): once the Store has
\* answered the import of a conversation, the row of that source and id is
\* stored, whatever rows other sources hold under the same id.
C27_PairKeyed ==
  sResult.kind \in {"inserted", "updated", "rejected"} =>
    Row(sActor, sResult.id) \in sRows

Interrupt ==
  /\ pc = "items"
  /\ detail = NoDetail
  /\ pc' = "idle"
  /\ mode' = "none"
  /\ opts' = NoOpts
  /\ offset' = 0
  /\ allConversations' = <<>>
  /\ conversations' = <<>>
  /\ toSync' = <<>>
  /\ i' = 0
  /\ detail' = NoDetail
  /\ requested' = 0
  /\ synced' = 0
  /\ failed' = 0
  /\ report' = NoReport
  /\ notification' = "none"
  /\ outcomes' = <<>>
  /\ storeAtStart' = [id \in ConvIds |-> NoRow]
  /\ runInserted' = 0
  /\ runUpdated' = 0
  /\ lastUpsert' = NoUpsert
  /\ UNCHANGED <<remote, now, store, syncState, quietFulls, others>>

InterruptNext == Next \/ Interrupt

SpecInterrupt == Init /\ [][InterruptNext]_vars

\* Ids of the items of the run that were upserted.
CompletedIds == {outcomes[k].id : k \in {n \in 1..Len(outcomes) : outcomes[n].result = "ok"}}

\* C22: when a run that has upserted at least one item is interrupted between
\* two items, the stored rows stay and the sync state left behind names an
\* item of that run (one it completed, or the run's most recent one).
C22_InterruptKeepsProgress ==
  [][(pc = "items" /\ pc' = "idle" /\ synced > 0) =>
       /\ store' = store
       /\ syncState'.lastKnownConversationId
            \in CompletedIds \cup {conversations[1].id}]_vars

\* ---------------------------------------------------------------------------
\* Nothing to do against nothing done
\* ---------------------------------------------------------------------------

\* C24: the summary of a run that found nothing to sync carries failed = 0, the
\* summary of a run whose items all failed carries failed > 0: the two
\* summaries are never equal.
C24_NoChangesIsNotAllFailed ==
  (pc = "done" /\ report.sent) =>
     /\ outcomes = <<>> => report.failed = 0 /\ report.synced = 0
     /\ (outcomes # <<>> /\ CountOutcomes(TRUE) = 0) =>
          /\ report.failed = Len(outcomes)
          /\ \A t \in 0..MaxListLen : report # SyncComplete(0, 0, t)

\* A quick run of two items that both failed.
C24_Witness ==
  /\ pc = "done" /\ report.sent /\ mode = "quick"
  /\ Len(outcomes) = 2 /\ CountOutcomes(TRUE) = 0

\* ---------------------------------------------------------------------------
\* What the converters emit
\* ---------------------------------------------------------------------------

\* C25 (as stated): the converted messages of a tree are as many as the nodes
\* on the path from the root to current_node.
C25_CountIsPathLength ==
  (dApplied /\ dInput.source = "chatgpt") =>
     Len(dMessages) = Cardinality(OnPath(dInput.parents, dInput.current))

\* C25 (amended): the converted messages of a tree are as many as the nodes on
\* the path from the root to current_node that carry text and are not system
\* messages, one sequence number each, strictly increasing.
C25_CountIsKeptPathNodes ==
  (dApplied /\ dInput.source = "chatgpt") =>
     /\ Len(dMessages) =
          Cardinality({n \in OnPath(dInput.parents, dInput.current) :
                         dInput.entries[n] \in {"user", "assistant"}})
     /\ \A a, b \in DOMAIN dMessages :
          a < b => dMessages[a].sequence_number < dMessages[b].sequence_number

\* A path of three nodes of which the middle one is a system message: two
\* messages come out.
C25_Witness ==
  /\ dApplied /\ dInput.source = "chatgpt"
  /\ dInput.parents = <<0, 1, 2>> /\ dInput.current = 3
  /\ dInput.entries = <<"user", "system", "assistant">>
  /\ Len(dMessages) = 2

\* C26: every message a converter emits has role user or assistant.
C26_RolesUserOrAssistant ==
  dApplied => \A k \in DOMAIN dMessages : dMessages[k].role \in {"user", "assistant"}

\* ---------------------------------------------------------------------------
\* The conversations table and its full-text index (SpecFts)
\* ---------------------------------------------------------------------------

\* conversations_fts is an external-content FTS5 table (content =
\* 'conversations', content_rowid = 'id'): it stores index entries only, and
\* to remove the entries of a rowid it reads that row's values from the
\* content table at the time of the statement.
IndexEntry(rowid, content) == [rowid |-> rowid, content |-> content]

\* INSERT INTO conversations_fts(rowid, title, full_text) VALUES (...).
FtsInsert(index, rowid, content) == index \cup {IndexEntry(rowid, content)}

\* DELETE FROM conversations_fts WHERE rowid = ...: the entries removed are
\* those of the values the content table holds for the rowid now.
FtsDelete(index, rows, rowid) ==
  IF rows[rowid] = NoContent THEN index
  ELSE index \ {IndexEntry(rowid, rows[rowid])}

\* UPDATE conversations_fts SET title = ..., full_text = ... WHERE rowid = ...:
\* the removal above, then the insertion of the new values.
FtsUpdate(index, rows, rowid, content) ==
  FtsInsert(FtsDelete(index, rows, rowid), rowid, content)

\* INSERT INTO conversations, then trigger conversations_ai (AFTER INSERT).
ConversationInsert(content) ==
  /\ qNext < MaxFtsRows
  /\ qNext' = qNext + 1
  /\ qRows' = [qRows EXCEPT ![qNext + 1] = content]
  /\ qIndex' = FtsInsert(qIndex, qNext + 1, content)
  /\ UNCHANGED <<coreVars, lateVars, sourceVars, triggerVars>>

\* UPDATE conversations, then trigger conversations_au (AFTER UPDATE): the
\* table holds the new values when the trigger's statement runs.
ConversationUpdate(rowid, content) ==
  /\ qRows[rowid] # NoContent
  /\ qRows[rowid] # content
  /\ qRows' = [qRows EXCEPT ![rowid] = content]
  /\ qIndex' = FtsUpdate(qIndex, qRows', rowid, content)
  /\ UNCHANGED <<qNext, coreVars, lateVars, sourceVars, triggerVars>>

\* DELETE FROM conversations, then trigger conversations_ad (AFTER DELETE):
\* the row is gone when the trigger's statement runs.
ConversationDelete(rowid) ==
  /\ qRows[rowid] # NoContent
  /\ qRows' = [qRows EXCEPT ![rowid] = NoContent]
  /\ qIndex' = FtsDelete(qIndex, qRows', rowid)
  /\ UNCHANGED <<qNext, coreVars, lateVars, sourceVars, triggerVars>>

FtsNext ==
  \/ \E content \in Contents : ConversationInsert(content)
  \/ \E rowid \in RowIds, content \in Contents : ConversationUpdate(rowid, content)
  \/ \E rowid \in RowIds : ConversationDelete(rowid)

SpecFts == Init /\ [][FtsNext]_vars

\* C28: the index holds, for every row of the table, the entry of its current
\* title and text and no other, and no entry for a rowid without row.
C28_ProjectionNeverStale ==
  \A rowid \in RowIds :
     {e \in qIndex : e.rowid = rowid} =
        IF qRows[rowid] = NoContent THEN {}
        ELSE {IndexEntry(rowid, qRows[rowid])}

\* ---------------------------------------------------------------------------
\* The background's trigger loops (SpecTrigger)
\* ---------------------------------------------------------------------------

ServiceSet == {Services[k] : k \in 1..Len(Services)}

\* The popup sends triggerSyncAllEnabled, or the autoSync alarm fires. The
\* settings and the tabs are what the run finds: the enabled services, the
\* services without a matching tab (or whose content script cannot be
\* reached), and the services whose tab rejects the calls made on it.
TriggerStart(triggerMode, enabled, noTab, throws) ==
  /\ bPc = "idle"
  /\ bPc' = "loop"
  /\ bMode' = triggerMode
  /\ bEnabled' = enabled
  /\ bNoTab' = noTab
  /\ bThrows' = throws
  /\ bI' = 0
  /\ bTriggered' = {}
  /\ UNCHANGED <<coreVars, lateVars, sourceVars, ftsVars>>

\* triggerSyncAllEnabled: one pass of for (const service of
\* Object.keys(SERVICE_SCRIPTS)) in which triggerSyncAllForService is not
\* called or returns (false without tab or content script, true after the
\* message to the tab).
TriggerAllStep ==
  /\ bPc = "loop" /\ bMode = "allEnabled" /\ bI < Len(Services)
  /\ LET service == Services[bI + 1] IN
       /\ ~(service \in bEnabled /\ service \notin bNoTab /\ service \in bThrows)
       /\ bTriggered' = IF service \in bEnabled /\ service \notin bNoTab
                          THEN bTriggered \cup {service} ELSE bTriggered
  /\ bI' = bI + 1
  /\ UNCHANGED <<bPc, bMode, bEnabled, bNoTab, bThrows, coreVars, lateVars, sourceVars,
                 ftsVars>>

\* triggerSyncAllEnabled: chrome.tabs.update or chrome.windows.update rejects
\* inside triggerSyncAllForService; the handler's try encloses the loop, so
\* the catch is reached and the loop is over.
TriggerAllThrows ==
  /\ bPc = "loop" /\ bMode = "allEnabled" /\ bI < Len(Services)
  /\ LET service == Services[bI + 1] IN
       service \in bEnabled /\ service \notin bNoTab /\ service \in bThrows
  /\ bPc' = "done"
  /\ UNCHANGED <<bMode, bEnabled, bNoTab, bThrows, bI, bTriggered, coreVars, lateVars,
                 sourceVars, ftsVars>>

\* performAutoSync: one pass of for (const tab of tabs), the tabs taken in
\* the order of the services; the try is inside the loop.
AutoStep ==
  /\ bPc = "loop" /\ bMode = "auto" /\ bI < Len(Services)
  /\ LET service == Services[bI + 1] IN
       bTriggered' = IF /\ service \in bEnabled
                         /\ service \notin bNoTab
                         /\ service \notin bThrows
                      THEN bTriggered \cup {service} ELSE bTriggered
  /\ bI' = bI + 1
  /\ UNCHANGED <<bPc, bMode, bEnabled, bNoTab, bThrows, coreVars, lateVars, sourceVars,
                 ftsVars>>

\* The loop has gone through every service.
TriggerEnd ==
  /\ bPc = "loop" /\ bI = Len(Services)
  /\ bPc' = "done"
  /\ UNCHANGED <<bMode, bEnabled, bNoTab, bThrows, bI, bTriggered, coreVars, lateVars,
                 sourceVars, ftsVars>>

TriggerNext ==
  \/ \E triggerMode \in {"allEnabled", "auto"},
        enabled \in SUBSET ServiceSet, noTab \in SUBSET ServiceSet,
        throws \in SUBSET ServiceSet :
          TriggerStart(triggerMode, enabled, noTab, throws)
  \/ TriggerAllStep
  \/ TriggerAllThrows
  \/ AutoStep
  \/ TriggerEnd

SpecTrigger == Init /\ [][TriggerNext]_vars

\* C30: when a trigger run is over, every enabled service whose own tab was
\* there and took the calls has been sent its sync message, whatever happened
\* with the other services.
C30_ServicesIndependent ==
  bPc = "done" =>
     \A service \in bEnabled \ (bNoTab \cup bThrows) : service \in bTriggered

\* ---------------------------------------------------------------------------
\* The counts of a run, and the run after a failure
\* ---------------------------------------------------------------------------

\* C38: the summary a run sends adds up: synced + failed is the total.
C38_CountsAddUp ==
  (pc = "done" /\ report.sent) =>
     report.synced + report.failed = report.total

\* The candidates the next quick run gets from fetchAllConversationsViaAPI
\* when the remote list stays as it is.
NextQuickCandidates ==
  FetchAllChatGPT(remote, syncState.quickSyncDepth,
                  syncState.lastKnownConversationId).conversations

\* C32: when a quick run is over, every item of it that failed is among the
\* candidates of the next quick run.
C32_FailedItemIsCandidateAgain ==
  (pc = "done" /\ mode = "quick" /\ report.sent) =>
     \A k \in 1..Len(outcomes) :
        outcomes[k].result # "ok" => outcomes[k].id \in IdsOf(NextQuickCandidates)

\* Quick runs only, and every request of theirs succeeds.
QuickNext ==
  \/ \E id \in ConvIds, hasTime \in BOOLEAN : RemoteCreate(id, hasTime)
  \/ \E id \in ConvIds : RemoteUpdate(id)
  \/ Tick
  \/ StartSyncQuick
  \/ \E withTotal \in BOOLEAN : ListPage(withTotal)
  \/ Check
  \/ ItemFetch
  \/ ItemImport
  \/ Finish
  \/ RunReturns

SpecQuick == Init /\ [][QuickNext]_vars

\* A remote conversation the Store does not hold in its current version.
NotStored(conv) ==
  \/ store[conv.id] = NoRow
  \/ conv.ut # NoTime /\ conv.ut > store[conv.id]

\* C33: quick runs alone bring every remote conversation into the Store: when
\* a quick run without failures is over, a conversation that is still not
\* stored in its current version is within reach of the next quick run, that
\* is, among its candidates if the remote list stays as it is.
C33_QuickRunsReachEverything ==
  (pc = "done" /\ mode = "quick" /\ report.sent /\ failed = 0) =>
     \A k \in 1..Len(remote) :
        NotStored(remote[k]) => remote[k].id \in IdsOf(NextQuickCandidates)


\* The first page of the list answer that carries the id, or the last page
\* when none does.
RECURSIVE StopPage(_, _, _)
StopPage(pages, id, k) ==
  IF k >= Len(pages) THEN Len(pages)
  ELSE IF \E e \in 1..Len(pages[k]) : NormalizeConversationId(pages[k][e]) = id
       THEN k
       ELSE StopPage(pages, id, k + 1)

\* The ids the list answer carries on its pages 1..n.
IdsUpToPage(pages, n) ==
  UNION {{NormalizeConversationId(pages[k][e]) : e \in 1..Len(pages[k])} :
           k \in 1..n}

\* C37: a Gemini quick run that knows the last synced conversation requests
\* no page beyond the one that carries it: its candidates all come from the
\* pages up to that one.
C37_QuickStopsAtLastKnown ==
  (gPc = "items" /\ gMode = "quick" /\ gSyncState # NoGeminiId) =>
     IdsOf(gCandidates) \subseteq
       IdsUpToPage(gApi, StopPage(gApi, gSyncState, 1))


\* ------------------------------ the list loop against a list that changes
beforeLate == <<coreVars, sourceVars, ftsVars, triggerVars>>

\* Conversations of the account: one more than a page holds.
ListingIds == 1..(PageSize + 1)
\* Remote lists: every conversation at most once.
ListOrders ==
  {l \in UNION {[1..m -> ListingIds] : m \in 0..(PageSize + 1)} :
     \A a, b \in 1..Len(l) : a # b => l[a] # l[b]}
ListOf(order) == [k \in 1..Len(order) |-> [id |-> order[k]]]

\* fetchAllConversationsViaAPI() is called without options: offset = 0.
ListingStart(order) ==
  /\ lPc \in {"idle", "done"}
  /\ lRemote' = ListOf(order)
  /\ lOffset' = 0
  /\ lAll' = <<>>
  /\ lPc' = "paging"
  /\ UNCHANGED <<beforeLate, nRuns, updateVars, walkVars, backgroundVars>>

\* One request /conversations?offset=..&limit=..&order=updated and the
\* iteration of the while loop that handles its answer.
ListingPage(withTotal) ==
  /\ lPc = "paging"
  /\ LET r == ChatGPTPageStep(lAll, ChatGPTPage(lRemote, lOffset), lOffset,
                              IF withTotal THEN Len(lRemote) ELSE 0, 0, Null) IN
     /\ lAll' = r.all
     /\ lOffset' = r.offset
     /\ lPc' = IF r.more THEN "paging" ELSE "done"
  /\ UNCHANGED <<lRemote, beforeLate, nRuns, updateVars, walkVars,
                 backgroundVars>>

\* A conversation gets a message while the loop awaits a page: order=updated
\* puts it first.
ListingTouch(id) ==
  /\ lPc = "paging"
  /\ id \in IdsOf(lRemote)
  /\ lRemote[1].id # id
  /\ lRemote' = <<[id |-> id]>> \o SelectSeq(lRemote, LAMBDA c : c.id # id)
  /\ UNCHANGED <<lPc, lOffset, lAll, beforeLate, nRuns, updateVars, walkVars,
                 backgroundVars>>

ListingNext ==
  \/ \E order \in ListOrders : ListingStart(order)
  \/ \E withTotal \in BOOLEAN : ListingPage(withTotal)
  \/ \E id \in ListingIds : ListingTouch(id)

SpecListing == Init /\ [][ListingNext]_vars

\* C36: the list a full run collected holds every conversation of the remote
\* list exactly once, also when conversations were updated between two page
\* requests.
C36_EveryConversationOnce ==
  lPc = "done" =>
     \A c \in IdsOf(lRemote) :
        Cardinality({k \in 1..Len(lAll) : lAll[k].id = c}) = 1


\* ------------------------- the walk from current_node back along the parents
\* parent of a node: null, or an id, which the mapping holds or not.
Parents == {NoParent} \cup Nodes
Mappings == [Nodes -> {NoNode} \cup Parents]
MappingSize(mapping) == Cardinality({n \in Nodes : mapping[n] # NoNode})

\* const mapping = apiConversation.mapping || {}; let nodeId = currentNode.
WalkStart(mapping, currentNode) ==
  /\ wPc \in {"idle", "done"}
  /\ wMapping' = mapping
  /\ wNode' = currentNode
  /\ wSteps' = 0
  /\ wPc' = "walk"
  /\ UNCHANGED <<beforeLate, listingVars, nRuns, updateVars, backgroundVars>>

\* nodeId && mapping[nodeId]
WalkContinues == wNode # NoParent /\ wMapping[wNode] # NoNode

\* One iteration of the while loop: nodeId = node.parent. The model counts
\* the iterations up to one more than the mapping can hold.
WalkStep ==
  /\ wPc = "walk"
  /\ WalkContinues
  /\ wSteps <= MaxNodes
  /\ wNode' = wMapping[wNode]
  /\ wSteps' = wSteps + 1
  /\ UNCHANGED <<wMapping, wPc, beforeLate, listingVars, nRuns, updateVars,
                 backgroundVars>>

\* The loop condition is false: the conversion goes on with messageChain.
WalkEnd ==
  /\ wPc = "walk"
  /\ ~WalkContinues
  /\ wPc' = "done"
  /\ UNCHANGED <<wMapping, wNode, wSteps, beforeLate, listingVars, nRuns,
                 updateVars, backgroundVars>>

WalkNext ==
  \/ \E mapping \in Mappings, currentNode \in Parents :
       WalkStart(mapping, currentNode)
  \/ WalkStep
  \/ WalkEnd

SpecWalk == Init /\ [][WalkNext]_vars

\* C39: the walk ends for every mapping: once it has made as many iterations
\* as the mapping has nodes, its loop condition is false. (A walk that goes
\* on after that is at a node it has been at, and repeats from there.)
C39_WalkEnds ==
  (wPc = "walk" /\ wSteps >= MappingSize(wMapping)) => ~WalkContinues


\* --------------------------------- sync runs of one source's content script
\* Most runs the model follows.
MaxRuns == 2
\* Who sent the message: the alarm's performAutoSync, or a popup button
\* through triggerSyncAll / triggerSyncQuickForService.
Senders == {"alarm", "popup"}
RunsInProgress == {k \in 1..Len(nRuns) : nRuns[k].phase # "returned"}

\* request.action === 'syncAll': performSyncAll() is called, and the listener
\* answers {success: true} at once. Only the popup sends it.
ReceiveSyncAll ==
  /\ Len(nRuns) < MaxRuns
  /\ nRuns' = Append(nRuns, [mode |-> "full", from |-> "popup", phase |-> "list"])
  /\ UNCHANGED <<beforeLate, listingVars, updateVars, walkVars, backgroundVars>>

\* request.action === 'syncQuick': performSyncQuick() is called likewise.
ReceiveSyncQuick(from) ==
  /\ Len(nRuns) < MaxRuns
  /\ nRuns' = Append(nRuns, [mode |-> "quick", from |-> from, phase |-> "list"])
  /\ UNCHANGED <<beforeLate, listingVars, updateVars, walkVars, backgroundVars>>

\* A run gets the answer it awaits and goes on: from the list to the items,
\* from the items to the summary.
RunProceeds(k) ==
  /\ k \in 1..Len(nRuns)
  /\ nRuns[k].phase \in {"list", "items"}
  /\ nRuns' = [nRuns EXCEPT ![k].phase = IF @ = "list" THEN "items" ELSE "summary"]
  /\ UNCHANGED <<beforeLate, listingVars, updateVars, walkVars, backgroundVars>>

\* The run's function returns.
RunEnds(k) ==
  /\ k \in 1..Len(nRuns)
  /\ nRuns[k].phase = "summary"
  /\ nRuns' = [nRuns EXCEPT ![k].phase = "returned"]
  /\ UNCHANGED <<beforeLate, listingVars, updateVars, walkVars, backgroundVars>>

RunsNext ==
  \/ ReceiveSyncAll
  \/ \E from \in Senders : ReceiveSyncQuick(from)
  \/ \E k \in 1..MaxRuns : RunProceeds(k)
  \/ \E k \in 1..MaxRuns : RunEnds(k)

SpecRuns == Init /\ [][RunsNext]_vars

\* C34: at most one run of the source is in progress at any time.
C34_OneRunAtATime == Cardinality(RunsInProgress) <= 1


\* ------------------------------ calls of the sync-state manager in flight
\* The updates object a call passes to updateChatGPTSyncState.
UpdatesOf(call) ==
  IF call.kind = "depth" THEN [quickSyncDepth |-> call.depth]
  ELSE IF call.type = "quick"
       THEN [lastKnownConversationId |-> call.conversationId,
             lastQuickSync |-> call.clock]
       ELSE [lastKnownConversationId |-> call.conversationId,
             lastFullSync |-> call.clock]

\* setChatGPTLastSyncedConversation(conversationId, type) is called and
\* updateChatGPTSyncState gets the stored state: const currentState = await
\* getChatGPTSyncState().
SetLastReads(c, conversationId, type, clock) ==
  /\ uCalls[c].stage = "idle"
  /\ uCalls' = [uCalls EXCEPT ![c] =
       [stage |-> "read", kind |-> "last", conversationId |-> conversationId,
        type |-> type, clock |-> clock, depth |-> 0, currentState |-> uState]]
  /\ UNCHANGED <<uState, beforeLate, listingVars, nRuns, walkVars,
                 backgroundVars>>

\* setChatGPTQuickSyncDepth(depth) with a valid depth, up to the same point.
SetDepthReads(c, depth) ==
  /\ uCalls[c].stage = "idle"
  /\ depth >= 1
  /\ uCalls' = [uCalls EXCEPT ![c] =
       [stage |-> "read", kind |-> "depth", conversationId |-> Null,
        type |-> "quick", clock |-> NoTime, depth |-> depth,
        currentState |-> uState]]
  /\ UNCHANGED <<uState, beforeLate, listingVars, nRuns, walkVars,
                 backgroundVars>>

\* newState = { ...currentState, ...updates } is stored and the call returns.
UpdateWrites(c) ==
  /\ uCalls[c].stage = "read"
  /\ uState' = UpdateSyncState(uCalls[c].currentState, UpdatesOf(uCalls[c]))
  /\ uCalls' = [uCalls EXCEPT ![c] = NoCall]
  /\ UNCHANGED <<beforeLate, listingVars, nRuns, walkVars, backgroundVars>>

\* The calls the model makes: two conversations, one time of day for every
\* timestamp, and the default depth or the next one.
UpdateIds == {"A", "B"}
UpdateClock == MaxTime
UpdateDepths == {DefaultQuickSyncDepth, DefaultQuickSyncDepth + 1}

UpdatesNext ==
  \/ \E c \in Callers, conversationId \in UpdateIds, type \in {"quick", "full"} :
       SetLastReads(c, conversationId, type, UpdateClock)
  \/ \E c \in Callers, depth \in UpdateDepths : SetDepthReads(c, depth)
  \/ \E c \in Callers : UpdateWrites(c)

SpecUpdates == Init /\ [][UpdatesNext]_vars

\* C35: no update is lost: the write of one update changes the fields of its
\* own updates only, and leaves every other stored field, whichever update
\* wrote it, as it is.
C35_NoUpdateLost ==
  [][\A c \in Callers :
       (uCalls[c].stage = "read" /\ uCalls'[c].stage = "idle") =>
          \A f \in DOMAIN uState \ DOMAIN UpdatesOf(uCalls[c]) :
             uState'[f] = uState[f]]_vars


\* ------------------- the background's alarm and its manualSync handler
\* The intervals the popup offers, in hours: the default and its neighbours.
IntervalOptions == (SYNC_INTERVAL - 1)..(SYNC_INTERVAL + 1)

\* scheduleSync(intervalHours): the alarm is cleared and created anew.
ScheduleSync(intervalHours) == intervalHours * 60

\* chrome.runtime.onInstalled (install, update of the extension or of the
\* browser): the stored settings, with autoSync true by default, are read and
\* scheduleSync(settings.syncInterval) is called.
Installed ==
  /\ aPeriod' = ScheduleSync(aSetting)
  /\ aFired' = 0
  /\ UNCHANGED <<aSetting, mPc, mService, mAnswer, mResponse, beforeLate,
                 listingVars, nRuns, updateVars, walkVars>>

\* What the background's onMessage listener does with {action:
\* 'updateSchedule', interval}: it has no branch for the action, so the
\* alarm stays as it is.
OnUpdateSchedule(period, interval) == period

\* handleIntervalChange of the popup: the setting is stored and the message
\* is sent to the background.
IntervalChange(interval) ==
  /\ aPeriod # NoAlarm
  /\ interval # aSetting
  /\ aSetting' = interval
  /\ aPeriod' = OnUpdateSchedule(aPeriod, interval)
  /\ UNCHANGED <<aFired, mPc, mService, mAnswer, mResponse, beforeLate, listingVars,
                 nRuns, updateVars, walkVars>>

\* An hour passes without the alarm being due.
HourPasses ==
  /\ aPeriod # NoAlarm
  /\ aFired * 60 < aPeriod
  /\ aFired' = aFired + 1
  /\ UNCHANGED <<aSetting, aPeriod, mPc, mService, mAnswer, mResponse,
                 beforeLate, listingVars, nRuns, updateVars, walkVars>>

\* chrome.alarms.onAlarm of autoSync: performAutoSync() runs and the period
\* starts again.
AlarmFires ==
  /\ aPeriod # NoAlarm
  /\ aFired * 60 = aPeriod
  /\ aFired' = 0
  /\ UNCHANGED <<aSetting, aPeriod, mPc, mService, mAnswer, mResponse,
                 beforeLate, listingVars, nRuns, updateVars, walkVars>>

\* What performSync of a content script ends with: it returns, or it throws
\* one of its errors.
PerformSyncResults ==
  {"synced", "notOnPage", "backendDown", "noConversation", "importFailed"}

\* The content script's listener on {action: 'sync'}: {success: true} after
\* performSync returned, {success: false, error} after it threw.
SyncAnswer(result) == IF result = "synced" THEN "success" ELSE "failure"

\* The manualSync handler after `await chrome.tabs.sendMessage(activeTab.id,
\* {action: 'sync'})` resolved with the answer.
ManualSyncResponse(answer) == "success"

\* The popup's "Sync Current": the background detects the service of the
\* active tab; without one it answers {success: false}.
ManualSync(service) ==
  /\ mPc \in {"idle", "answered"}
  /\ mService' = service
  /\ mAnswer' = "none"
  /\ IF service = "none"
     THEN mPc' = "answered" /\ mResponse' = "failure"
     ELSE mPc' = "sent" /\ mResponse' = "none"
  /\ UNCHANGED <<aSetting, aPeriod, aFired, beforeLate, listingVars, nRuns,
                 updateVars, walkVars>>

\* The tab's content script answers the sync message.
ContentAnswers(result) ==
  /\ mPc = "sent"
  /\ mAnswer' = SyncAnswer(result)
  /\ mResponse' = ManualSyncResponse(SyncAnswer(result))
  /\ mPc' = "answered"
  /\ UNCHANGED <<aSetting, aPeriod, aFired, mService, beforeLate, listingVars,
                 nRuns, updateVars, walkVars>>

\* The tab has no content script: sendMessage rejects and the handler's
\* catch answers {success: false}.
NoReceiver ==
  /\ mPc = "sent"
  /\ mAnswer' = "noReceiver"
  /\ mResponse' = "failure"
  /\ mPc' = "answered"
  /\ UNCHANGED <<aSetting, aPeriod, aFired, mService, beforeLate, listingVars,
                 nRuns, updateVars, walkVars>>

BackgroundNext ==
  \/ Installed
  \/ \E interval \in IntervalOptions : IntervalChange(interval)
  \/ HourPasses
  \/ AlarmFires
  \/ \E service \in ServiceSet \cup {"none"} : ManualSync(service)
  \/ \E result \in PerformSyncResults : ContentAnswers(result)
  \/ NoReceiver

SpecBackground == Init /\ [][BackgroundNext]_vars

\* C31: the autoSync alarm has the period of the configured interval, also
\* after the user selected a new one.
C31_AlarmFollowsSetting ==
  aPeriod # NoAlarm => aPeriod = aSetting * 60

\* C40: the popup gets success for "Sync Current" only if the content
\* script's sync succeeded.
C40_SuccessOnlyIfSynced ==
  (mPc = "answered" /\ mResponse = "success") => mAnswer = "success"

====
